---- MODULE Spec2Model ----
(***************************************************************************)
(* rxcraft: the graph-to-stream compiler and runtime (buildRxStream) and   *)
(* the event handling of the visualizer (RxVisualizer).                    *)
(*                                                                         *)
(* A run is modelled as the program executes it on one thread: the build   *)
(* (synchronous), listener attach, then macrotasks (zero-delay subscribe   *)
(* timers, interval ticks, delay timers, fetch settlement) interleaved     *)
(* with teardown.  Observables are cold: every subscription instantiates   *)
(* its own chain of upstream subscriptions ("instances").                  *)
(***************************************************************************)
EXTENDS Integers, Sequences, FiniteSets, TLC

\* Bounds of the model.
MaxTicks == 3
MaxUnsubCalls == 2

\* Program constants.
DefaultTakeCount == 5
LogKeep == 20

VARIABLES
  nodes,               \* Node[] handed to buildRxStream
  edges,               \* Edge[] handed to buildRxStream
  pc,                  \* "idle" | "built" | "running" | "stopped"
  nodeObservables,     \* Map<string, Observable>: node id -> producer
  nodeSubscriptionCounts, \* Map<string, number>
  inst,                \* every subscription created in the run, in creation order
  subscriptions,       \* Subscription[] of the multiplexer (indices into inst)
  subscriptionCounter, \* next N of sub_N
  pendingSub,          \* setTimeout(0) callbacks not yet run, FIFO
  fetchState,          \* node id -> "pending" | "fulfilled" | "rejected"
  bus,                 \* events accepted by eventSubject.next, in order
  busStopped,          \* eventSubject.isStopped (after complete())
  listening,           \* the visualizer's listener is attached
  heard,               \* events delivered to the listener, in order
  nodeSubscriptions,   \* visualizer: (nodeId, subscriptionId) -> NodeStatus
  subscriberLogs,      \* visualizer: observer node id -> logged values
  clock,               \* Date.now(), in ms, coarse
  ticks,               \* timer firings so far (bounded by MaxTicks)
  unsubCalls,          \* calls of the unsubscribe() returned by buildRxStream
  isPlaying,           \* visualizer: useState(false), the session is playing
  restartTimers,       \* pending setTimeout(() => setIsPlaying(true), 50)
  updates,             \* updateNodeConfig calls so far (bounded by MaxUpdates)
  importData           \* sample library: the exported / pasted JSON document

vars == <<nodes, edges, pc, nodeObservables, nodeSubscriptionCounts, inst,
          subscriptions, subscriptionCounter, pendingSub, fetchState, bus,
          busStopped, listening, heard, nodeSubscriptions, subscriberLogs,
          clock, ticks, unsubCalls, isPlaying, restartTimers, updates,
          importData>>

\* the state of the page around the run
ui == <<isPlaying, restartTimers, updates, importData>>

-----------------------------------------------------------------------------
(* Graph model *)

\* config: count (take), values/cfg (array: "" unset, "bad" malformed JSON,
\* "ok" parsed values), cfg (map: "" unset, "bad" malformed, "inc" x => x + 1)
Node(id, type, kind, multi, count, values, cfg) ==
  [id |-> id, type |-> type, kind |-> kind, multi |-> multi,
   count |-> count, values |-> values, cfg |-> cfg]

Edge(source, target, handle) ==
  [source |-> source, target |-> target, handle |-> handle]

Src(id, kind)      == Node(id, "observable", kind, FALSE, 0, <<>>, "")
Arr(id, values)    == Node(id, "observable", "array", FALSE, 0, values, "ok")
Multi(id, kind)    == Node(id, "observable", kind, TRUE, 0, <<>>, "")
Op(id, kind)       == Node(id, "operator", kind, FALSE, 0, <<>>, "")
Take(id, count)    == Node(id, "operator", "take", FALSE, count, <<>>, "")
Dual(id, kind)     == Node(id, "operator", kind, TRUE, 0, <<>>, "")
Sink(id)           == Node(id, "observer", "subscriber", FALSE, 0, <<>>, "")
OpCfg(id, kind, cfg) == Node(id, "operator", kind, FALSE, 0, <<>>, cfg)
ArrBad(id)         == Node(id, "observable", "array", FALSE, 0, <<>>, "bad")
\* config.successRate given, in percent
Prob(id, rate)     == Node(id, "observable", "probabilistic", FALSE, rate,
                           <<>>, "rate")

NoNode == Node("", "none", "none", FALSE, 0, <<>>, "")

NodeIds(ns) == {ns[i].id : i \in DOMAIN ns}

\* nodes.find(n => n.id === id)
FindNode(ns, id) ==
  IF \E i \in DOMAIN ns : ns[i].id = id
  THEN ns[CHOOSE i \in DOMAIN ns :
            ns[i].id = id /\ \A j \in DOMAIN ns : ns[j].id = id => i <= j]
  ELSE NoNode

\* edges.filter(edge => edge.source === nodeId)
DownstreamEdges(es, nodeId) == SelectSeq(es, LAMBDA e : e.source = nodeId)

\* nodeConnections.get(nodeId) || []
Inputs(es, nodeId) ==
  LET ins == SelectSeq(es, LAMBDA e : e.target = nodeId)
  IN [i \in DOMAIN ins |-> ins[i].source]

\* variant: the port labels of the edges are not recorded
ConnectionDetailsUnlabelled(ns, es, nodeId) ==
  [primary |-> "", secondary |-> ""]

\* nodeConnectionDetails.get(nodeId): the last edge carrying each port label wins
ConnectionDetails(ns, es, nodeId) ==
  LET t == FindNode(ns, nodeId)
      tracked == t.multi /\ t.type = "operator"
      ins == SelectSeq(es, LAMBDA e : e.target = nodeId)
      lastOf(h) ==
        IF tracked /\ \E i \in DOMAIN ins : ins[i].handle = h
        THEN ins[CHOOSE i \in DOMAIN ins :
                   ins[i].handle = h
                   /\ \A j \in DOMAIN ins : ins[j].handle = h => j <= i].source
        ELSE ""
  IN [primary |-> lastOf("primary"), secondary |-> lastOf("secondary")]

-----------------------------------------------------------------------------
(* Producers (nodeObservables).  A producer is the tree of RxJS objects   *)
(* the build composed: its kind, the node whose code built it, whether a   *)
(* tap/finalize pair reports it on the bus, and its input producers.       *)

Obs(k, node, tap, ins, count, values, cfg, sec) ==
  [k |-> k, node |-> node, tap |-> tap, ins |-> ins, count |-> count,
   values |-> values, cfg |-> cfg, sec |-> sec]

NoObs == Obs("none", "", FALSE, <<>>, 0, <<>>, "", "")

Get(m, id) == IF id \in DOMAIN m THEN m[id] ELSE NoObs

Put(m, id, o) == [x \in DOMAIN m \cup {id} |-> IF x = id THEN o ELSE m[x]]

ParseErrorValues == <<91, 92>>
DefaultArrayValues == <<11, 12, 13>>

\* node.data.config?.successRate || 0.5, in percent
DefaultSuccessRate == 50

SourceKinds == {"interval", "array", "fetch", "empty", "never", "probabilistic"}

\* the switch over node.data.id of an observable node
SourceObs(es, n) ==
  LET tap == DownstreamEdges(es, n.id) = <<>>
      k == IF n.kind \in SourceKinds THEN n.kind ELSE "empty"
      values == IF n.cfg = "bad" THEN ParseErrorValues
                ELSE IF n.cfg = "" THEN DefaultArrayValues ELSE n.values
      successRate == IF n.count = 0 THEN DefaultSuccessRate ELSE n.count
  IN Obs(k, n.id, tap, <<>>, IF k = "probabilistic" THEN successRate ELSE 0,
         IF k = "array" THEN values ELSE <<>>, "", "")

\* first pass: every observable node gets a producer
CreateSources(ns, es) ==
  LET f[i \in 0..Len(ns)] ==
        IF i = 0 THEN <<>>
        ELSE IF ns[i].type = "observable"
             THEN Put(f[i-1], ns[i].id, SourceObs(es, ns[i]))
             ELSE f[i-1]
  IN f[Len(ns)]

\* second pass: merge and race over the producers their inputs have so far
MergeRaceObs(es, n, m) ==
  LET ins == Inputs(es, n.id)
      got == [i \in DOMAIN ins |-> Get(m, ins[i])]
      defined == SelectSeq(got, LAMBDA o : o.k # "none")
      tap == DownstreamEdges(es, n.id) = <<>>
  IN Obs(n.kind, n.id, tap, defined, 0, <<>>, "", "")

CreateMergeRace(ns, es, m0) ==
  LET f[i \in 0..Len(ns)] ==
        IF i = 0 THEN m0
        ELSE IF ns[i].type = "observable" /\ ns[i].kind \in {"merge", "race"}
                /\ Len(Inputs(es, ns[i].id)) >= 2
             THEN Put(f[i-1], ns[i].id, MergeRaceObs(es, ns[i], f[i-1]))
             ELSE f[i-1]
  IN f[Len(ns)]

\* variant: inputs are looked up without recursion, and an input that has
\* no producer is read as EMPTY
ProcessOperatorFromEmpty(ns, es, m, nodeId) ==
  LET node == FindNode(ns, nodeId)
      inputs == Inputs(es, nodeId)
      Resolved(x) ==
        IF Get(m.obs, x).k # "none" THEN Get(m.obs, x)
        ELSE Obs("empty", x, FALSE, <<>>, 0, <<>>, "", "")
      tapAlone == DownstreamEdges(es, nodeId) = <<>>
      maxCount == IF node.count = 0 THEN DefaultTakeCount ELSE node.count
      o == IF node.multi /\ Len(inputs) >= 2
           THEN Obs(node.kind, nodeId, TRUE,
                    <<Resolved(inputs[1]), Resolved(inputs[2])>>, 0, <<>>, "",
                    inputs[2])
           ELSE Obs(IF node.kind \in {"map", "filter", "take"}
                    THEN node.kind ELSE "pass",
                    nodeId, tapAlone, <<Resolved(inputs[1])>>, maxCount,
                    <<>>, node.cfg, "")
  IN IF node.type # "operator" \/ inputs = <<>> THEN [m |-> m, r |-> NoObs]
     ELSE [m |-> [m EXCEPT !.obs = Put(@, nodeId, o),
                           !.processed = @ \cup {nodeId}],
           r |-> o]

\* third pass: processOperator, memoised by processedOperators.  The result
\* is the pair (maps after the call, producer returned).
RECURSIVE ProcessOperator(_, _, _, _)
ProcessOperator(ns, es, m, nodeId) ==
  LET node == FindNode(ns, nodeId)
      inputs == Inputs(es, nodeId)
      m1 == [m EXCEPT !.processed = @ \cup {nodeId}]
      \* nodeObservables.get(x) || processOperator(x)
      Resolve(mm, x) ==
        IF Get(mm.obs, x).k # "none"
        THEN [m |-> mm, r |-> Get(mm.obs, x)]
        ELSE ProcessOperator(ns, es, mm, x)
      tapAlone == DownstreamEdges(es, nodeId) = <<>>
      Done(mm, o) == [m |-> [mm EXCEPT !.obs = Put(@, nodeId, o)], r |-> o]
  IN
  IF nodeId \in m.processed THEN [m |-> m, r |-> Get(m.obs, nodeId)]
  ELSE IF node.type # "operator" THEN [m |-> m, r |-> NoObs]
  ELSE IF inputs = <<>> THEN [m |-> m1, r |-> NoObs]
  ELSE IF node.multi /\ Len(inputs) >= 2 THEN
    LET details == ConnectionDetails(ns, es, nodeId)
        labelled == details.primary # "" /\ details.secondary # ""
        primaryInput == IF labelled THEN details.primary ELSE inputs[1]
        secondaryInput == IF labelled THEN details.secondary ELSE inputs[2]
        p == Resolve(m1, primaryInput)
        s == Resolve(p.m, secondaryInput)
        k == IF node.kind \in {"takeUntil", "skipUntil", "zip", "buffer",
                               "switchMapTo"}
             THEN node.kind ELSE "pass"
    IN IF p.r.k = "none" \/ s.r.k = "none" THEN [m |-> s.m, r |-> NoObs]
       ELSE Done(s.m, Obs(k, nodeId, TRUE, <<p.r, s.r>>, 0, <<>>, "",
                          secondaryInput))
  ELSE
    LET src == Resolve(m1, inputs[1])
        k == IF node.kind \in {"map", "filter", "take", "skip", "startWith",
                               "retry", "timeout"}
             THEN node.kind ELSE "pass"
        maxCount == IF node.count = 0 THEN DefaultTakeCount ELSE node.count
    IN IF src.r.k = "none" THEN [m |-> src.m, r |-> NoObs]
       ELSE Done(src.m, Obs(k, nodeId, tapAlone, <<src.r>>, maxCount, <<>>,
                            node.cfg, ""))

ProcessOperators(ns, es, obs0) ==
  LET f[i \in 0..Len(ns)] ==
        IF i = 0 THEN [obs |-> obs0, processed |-> {}]
        ELSE IF ns[i].type = "operator"
             THEN ProcessOperator(ns, es, f[i-1], ns[i].id).m
             ELSE f[i-1]
  IN f[Len(ns)].obs

\* nodeObservables after the three passes
BuildObservables(ns, es) ==
  ProcessOperators(ns, es, CreateMergeRace(ns, es, CreateSources(ns, es)))

-----------------------------------------------------------------------------
(* Demand: calculateSubscriptionCounts, memoised in nodeSubscriptionCounts. *)
(* The result is (memo after the call, count returned, raised).  The        *)
(* recursion has no visited set: on a cycle it never returns and the call   *)
(* stack overflows, which is reported as raised.                            *)

MaxDepth(ns, es) == Len(ns) + Len(es) + 1

\* variant: the demand of a node taken to be its number of downstream edges
\* (the downstreamCount map), not the sum over what lies behind them
CalculateDownstreamCount(ns, es, memo, nodeId, depth) ==
  LET down == DownstreamEdges(es, nodeId)
      r == IF down = <<>>
           THEN IF FindNode(ns, nodeId).type = "observer" THEN 1 ELSE 0
           ELSE Len(down)
  IN [memo |-> IF r > 0 THEN Put(memo, nodeId, r) ELSE memo, r |-> r,
      raised |-> FALSE]

RECURSIVE CalculateSubscriptionCounts(_, _, _, _, _)
CalculateSubscriptionCounts(ns, es, memo, nodeId, depth) ==
  LET down == DownstreamEdges(es, nodeId)
      f[i \in 0..Len(down)] ==
        IF i = 0 THEN [memo |-> memo, r |-> 0, raised |-> FALSE]
        ELSE LET prev == f[i-1]
                 c == CalculateSubscriptionCounts(ns, es, prev.memo,
                                                  down[i].target, depth + 1)
             IN IF prev.raised THEN prev
                ELSE [memo |-> c.memo, r |-> prev.r + c.r,
                      raised |-> c.raised]
      total == f[Len(down)]
  IN
  IF depth > MaxDepth(ns, es) THEN [memo |-> memo, r |-> 0, raised |-> TRUE]
  ELSE IF nodeId \in DOMAIN memo
    THEN [memo |-> memo, r |-> memo[nodeId], raised |-> FALSE]
  ELSE IF down = <<>> THEN
    IF FindNode(ns, nodeId).type = "observer"
    THEN [memo |-> Put(memo, nodeId, 1), r |-> 1, raised |-> FALSE]
    ELSE [memo |-> memo, r |-> 0, raised |-> FALSE]
  ELSE IF total.raised THEN total
  ELSE [memo |-> Put(total.memo, nodeId, total.r), r |-> total.r,
        raised |-> FALSE]

\* nodes.forEach(node => calculateSubscriptionCounts(node.id))
AllSubscriptionCounts(ns, es) ==
  LET f[i \in 0..Len(ns)] ==
        IF i = 0 THEN [memo |-> <<>>, r |-> 0, raised |-> FALSE]
        ELSE IF f[i-1].raised THEN f[i-1]
        ELSE CalculateSubscriptionCounts(ns, es, f[i-1].memo, ns[i].id, 0)
  IN f[Len(ns)]

\* nodeSubscriptionCounts.get(node.id) || 0
CountOf(memo, id) == IF id \in DOMAIN memo THEN memo[id] ELSE 0

-----------------------------------------------------------------------------
(* Lifecycle events and the visualizer's listener *)

NoValue == -1
SuccessValue == 100
FetchValue == 200

SubId(n) == <<"sub", "", n>>                   \* `sub_${n}`
SwitchId(node, t) == <<"switchmapto", node, t>> \* `switchmapto_${node}_${t}`
NoSubId == <<"none", "", 0>>                   \* subscriptionId undefined

Event(type, nodeId, subscriptionId, value) ==
  [type |-> type, nodeId |-> nodeId, subscriptionId |-> subscriptionId,
   value |-> value]

\* parseInt(event.subscriptionId?.split("_")[1] || "0"); -1 stands for NaN
SubscriptionNumber(sid) ==
  IF sid[1] = "sub" THEN sid[3] ELSE IF sid[1] = "none" THEN 0 ELSE -1

\* array.slice(-n)
LastN(q, n) ==
  IF Len(q) <= n THEN q ELSE SubSeq(q, Len(q) - n + 1, Len(q))

StatusOf(m, nodeId, sid) ==
  IF <<nodeId, sid>> \in DOMAIN m THEN m[<<nodeId, sid>>] ELSE "absent"

\* variant: the log is never cut
RouteNextKeepAll(st, ev) ==
  LET down == DownstreamEdges(st.es, ev.nodeId)
      number == SubscriptionNumber(ev.subscriptionId)
  IN IF down = <<>> \/ number < 0 THEN st
     ELSE LET target == down[(number % Len(down)) + 1].target
          IN IF FindNode(st.ns, target).type = "observer"
             THEN [st EXCEPT !.subscriberLogs =
                     Put(@, target,
                         Append(IF target \in DOMAIN @ THEN @[target]
                                ELSE <<>>, ev.value))]
             ELSE st

\* the "next" case: route the value to one downstream observer
RouteNext(st, ev) ==
  LET down == DownstreamEdges(st.es, ev.nodeId)
      number == SubscriptionNumber(ev.subscriptionId)
  IN IF down = <<>> \/ number < 0 THEN st
     ELSE LET target == down[(number % Len(down)) + 1].target
          IN IF FindNode(st.ns, target).type = "observer"
             THEN [st EXCEPT !.subscriberLogs =
                     Put(@, target,
                         Append(LastN(IF target \in DOMAIN @ THEN @[target]
                                      ELSE <<>>, LogKeep), ev.value))]
             ELSE st

\* variant: an unsubscribe event marks the subscription cancelled whatever
\* its state was
TrackStatusAlwaysCancel(m, ev) ==
  LET key == <<ev.nodeId, ev.subscriptionId>>
  IN IF ev.subscriptionId = NoSubId THEN m
     ELSE CASE ev.type = "subscribe" -> Put(m, key, "active")
            [] ev.type = "complete" -> Put(m, key, "completed")
            [] ev.type = "error" -> Put(m, key, "errored")
            [] ev.type = "unsubscribe" -> Put(m, key, "cancelled")
            [] OTHER -> m

\* variant: an unsubscribe event cancels every active subscription of the
\* node it names
TrackStatusWholeNode(m, ev) ==
  LET key == <<ev.nodeId, ev.subscriptionId>>
  IN IF ev.subscriptionId = NoSubId THEN m
     ELSE CASE ev.type = "subscribe" -> Put(m, key, "active")
            [] ev.type = "complete" -> Put(m, key, "completed")
            [] ev.type = "error" -> Put(m, key, "errored")
            [] ev.type = "unsubscribe" ->
                 [k \in DOMAIN m |->
                    IF k[1] = ev.nodeId /\ m[k] = "active"
                    THEN "cancelled" ELSE m[k]]
            [] OTHER -> m

\* setNodeSubscriptions in the subscribe/complete/error/unsubscribe cases
TrackStatus(m, ev) ==
  LET key == <<ev.nodeId, ev.subscriptionId>>
  IN IF ev.subscriptionId = NoSubId THEN m
     ELSE CASE ev.type = "subscribe" -> Put(m, key, "active")
            [] ev.type = "complete" -> Put(m, key, "completed")
            [] ev.type = "error" -> Put(m, key, "errored")
            [] ev.type = "unsubscribe" ->
                 IF StatusOf(m, ev.nodeId, ev.subscriptionId) = "active"
                 THEN Put(m, key, "cancelled") ELSE m
            [] OTHER -> m

\* eventObserver.subscribe((event) => { switch (event.type) ... })
HandleEvent(st, ev) ==
  LET s1 == [st EXCEPT !.heard = Append(@, ev)]
  IN IF ev.type = "next" THEN RouteNext(s1, ev)
     ELSE [s1 EXCEPT !.nodeSubscriptions = TrackStatus(@, ev)]

\* eventSubject.next(ev): dropped once the subject is stopped
Emit(st, ev) ==
  IF st.busStopped THEN st
  ELSE LET s1 == [st EXCEPT !.bus = Append(@, ev)]
       IN IF s1.listening THEN HandleEvent(s1, ev) ELSE s1

-----------------------------------------------------------------------------
(* Subscriptions.  One instance per call of subscribe() on a producer: the  *)
(* subscriber that receives the producer's output, with the state the       *)
(* producer keeps for it.  parent = 0: the multiplexer's observer (port is  *)
(* N of sub_N); otherwise the instance feeds input `port` of its parent.    *)

Inst(o, parent, port) ==
  [o |-> o, parent |-> parent, port |-> port,
   stopped |-> FALSE,   \* Subscriber.isStopped
   closed |-> FALSE,    \* Subscription.closed
   td |-> FALSE,        \* custom Observable: teardown function registered
   outer |-> 0,         \* take: subscription; switchMapTo: outerSubscription
   inner |-> 0,         \* switchMapTo: innerSubscription; race: winner
   cnt |-> 0,           \* interval: next value; take: count; merge: completed
   timer |-> FALSE,     \* a setInterval/setTimeout of this instance is pending
   done |-> FALSE,      \* switchMapTo: isCompleted; merge: all inputs subscribed
   sid |-> 0,           \* switchMapTo: Date.now() of secondarySubscriptionId
   then |-> FALSE,      \* fetch: promise.then callback not yet run
   ended |-> ""]        \* how it ended: "complete", "error", "unsubscribe"

Custom(k) == k \in {"take", "switchMapTo"}

\* children of instance i, in subscription order
Kids(st, i) ==
  SelectSeq([j \in DOMAIN st.inst |-> j], LAMBDA j : st.inst[j].parent = i)

SetI(st, i, field, v) == [st EXCEPT !.inst[i] = [@ EXCEPT ![field] = v]]

\* what new Function("x", `return (${func})(x)`) makes of config.func:
\* "bad" does not parse and the constructor throws; "notfn" parses (x + 1,
\* a value that is not a function) and every call of it throws
Parses(cfg) == cfg # "bad"
Throws(cfg) == cfg = "notfn"

MapErrorValue == 93

\* variant: a function that did not parse is replaced by the identity
MapFnIdentity(cfg, v) == IF cfg = "inc" THEN v + 1 ELSE v

\* the project function of a map node: the parsed function, or the one that
\* replaces a function that did not parse
MapFn(cfg, v) ==
  IF ~Parses(cfg) THEN MapErrorValue
  ELSE IF cfg = "inc" THEN v + 1 ELSE v

\* the predicate of a filter node ("odd": x => x % 2 === 1); a function
\* that did not parse leaves the source unfiltered
FilterFn(cfg, v) ==
  IF ~Parses(cfg) THEN TRUE
  ELSE IF cfg = "odd" THEN v % 2 = 1 ELSE TRUE

\* The calls below re-enter one another (a producer emits while it is being
\* subscribed, a handler unsubscribes its own source): they all go through
\* Run, which dispatches on the call.
RECURSIVE Run(_, _)

\* producer.subscribe(...)
Subscribe(st, o, parent, port) ==
  Run(st, [op |-> "subscribe", o |-> o, parent |-> parent, port |-> port])

\* observer.next(v) on the subscriber of instance i
OutNext(st, i, v) == Run(st, [op |-> "next", i |-> i, v |-> v])

\* observer.error(e)
OutError(st, i) == Run(st, [op |-> "error", i |-> i])

\* observer.complete()
OutComplete(st, i) == Run(st, [op |-> "complete", i |-> i])

\* subscription.unsubscribe() of instance i (0: no subscription)
Close(st, i) == Run(st, [op |-> "close", i |-> i])

\* instance p receives a notification on input `port`
OnInput(st, p, port, type, v) ==
  Run(st, [op |-> "input", i |-> p, port |-> port, type |-> type, v |-> v])

CloseAll(st, ids) ==
  LET f[j \in 0..Len(ids)] ==
        IF j = 0 THEN st ELSE Close(f[j-1], ids[j])
  IN f[Len(ids)]

\* what unsubscribing instance i tears down upstream
Finalizers(st, i) ==
  LET me == st.inst[i]
  IN CASE me.o.k = "take" -> Close(st, me.outer)
       [] me.o.k = "switchMapTo" ->
            LET s1 == Close(st, me.outer)
            IN IF me.inner # 0 THEN Close(s1, me.inner) ELSE s1
       [] OTHER -> CloseAll(st, Kids(st, i))

CloseStep(st, i) ==
  IF i = 0 \/ st.inst[i].closed THEN st
  ELSE
    LET me == st.inst[i]
        s1 == [st EXCEPT !.inst[i] =
                 [@ EXCEPT !.closed = TRUE, !.stopped = TRUE, !.timer = FALSE,
                           !.ended = IF @ = "" THEN "unsubscribe" ELSE @]]
        s2 == IF Custom(me.o.k) /\ ~me.td THEN s1 ELSE Finalizers(s1, i)
    IN IF me.o.tap
       THEN Emit(s2, Event("unsubscribe", me.o.node, NoSubId, NoValue))
       ELSE s2

\* the consumer of instance i receives a notification
Deliver(st, i, type, v) ==
  LET me == st.inst[i]
  IN IF me.parent = 0
     THEN Emit(st, Event(type, me.o.node, SubId(me.port), v))
     ELSE OnInput(st, me.parent, me.port, type, v)

NextStep(st, i, v) ==
  IF st.inst[i].stopped THEN st
  ELSE
    LET me == st.inst[i]
        s1 == IF me.o.tap
              THEN Emit(st, Event("next", me.o.node, NoSubId, v)) ELSE st
    IN Deliver(s1, i, "next", v)

ErrorStep(st, i) ==
  IF st.inst[i].stopped THEN st
  ELSE
    LET me == st.inst[i]
        s1 == SetI(SetI(st, i, "stopped", TRUE), i, "ended", "error")
        s2 == IF me.o.tap
              THEN Emit(s1, Event("error", me.o.node, NoSubId, NoValue))
              ELSE s1
    IN Close(Deliver(s2, i, "error", NoValue), i)

CompleteStep(st, i) ==
  IF st.inst[i].stopped THEN st
  ELSE
    LET me == st.inst[i]
        s1 == SetI(SetI(st, i, "stopped", TRUE), i, "ended", "complete")
        s2 == IF me.o.tap
              THEN Emit(s1, Event("complete", me.o.node, NoSubId, NoValue))
              ELSE s1
    IN Close(Deliver(s2, i, "complete", NoValue), i)

\* variant: one counter for the node, shared by all its subscriptions
TakeInputShared(st, p, type, v) ==
  LET me == st.inst[p]
      node == me.o.node
      sum[j \in 0..Len(st.inst)] ==
        IF j = 0 THEN 0
        ELSE sum[j-1] + (IF st.inst[j].o.k = "take"
                            /\ st.inst[j].o.node = node
                         THEN st.inst[j].cnt ELSE 0)
      count == sum[Len(st.inst)] + 1
      s1 == SetI(st, p, "cnt", me.cnt + 1)
      s2 == IF count <= me.o.count
            THEN Emit(OutNext(s1, p, v), Event("next", node, NoSubId, v))
            ELSE s1
  IN CASE type = "next" ->
            IF count >= me.o.count
            THEN Emit(OutComplete(s2, p),
                      Event("complete", node, NoSubId, NoValue))
            ELSE s2
       [] type = "error" ->
            Emit(OutError(st, p), Event("error", node, NoSubId, NoValue))
       [] OTHER ->
            Emit(OutComplete(st, p), Event("complete", node, NoSubId, NoValue))

\* the custom take: handlers of source$.subscribe({next, error, complete})
TakeInput(st, p, type, v) ==
  LET me == st.inst[p]
      node == me.o.node
      count == me.cnt + 1
      s1 == SetI(st, p, "cnt", count)
      s2 == IF count <= me.o.count
            THEN Emit(OutNext(s1, p, v), Event("next", node, NoSubId, v))
            ELSE s1
  IN CASE type = "next" ->
            IF count >= me.o.count
            THEN Emit(OutComplete(s2, p),
                      Event("complete", node, NoSubId, NoValue))
            ELSE s2
       [] type = "error" ->
            Emit(OutError(st, p), Event("error", node, NoSubId, NoValue))
       [] OTHER ->
            Emit(OutComplete(st, p), Event("complete", node, NoSubId, NoValue))

\* variant: the secondary is subscribed on the first outer value only
SwitchOuterInputOnce(st, p, type, v) ==
  LET me == st.inst[p]
      node == me.o.node
      secId == SwitchId(node, me.sid)
      announced == Emit(st, Event("subscribe", me.o.sec, secId, NoValue))
      newInner == Len(announced.inst) + 1
      s1 == SetI(st, p, "done", TRUE)
  IN CASE type = "next" ->
            IF me.inner # 0
            THEN Emit(Emit(st, Event("unsubscribe", me.o.sec, secId, NoValue)),
                      Event("subscribe", me.o.sec, secId, NoValue))
            ELSE SetI(Subscribe(announced, me.o.ins[2], p, 2), p, "inner",
                      newInner)
       [] type = "error" ->
            Emit(OutError(st, p), Event("error", node, NoSubId, NoValue))
       [] OTHER ->
            IF me.inner = 0 \/ st.inst[me.inner].closed
            THEN Emit(OutComplete(s1, p),
                      Event("complete", node, NoSubId, NoValue))
            ELSE s1

\* variant: the previous inner subscription is cancelled without an event
SwitchOuterInputQuiet(st, p, type, v) ==
  LET me == st.inst[p]
      node == me.o.node
      secId == SwitchId(node, me.sid)
      cancelled == IF me.inner # 0 THEN Close(st, me.inner) ELSE st
      announced == Emit(cancelled, Event("subscribe", me.o.sec, secId, NoValue))
      newInner == Len(announced.inst) + 1
      s1 == SetI(st, p, "done", TRUE)
  IN CASE type = "next" ->
            SetI(Subscribe(announced, me.o.ins[2], p, 2), p, "inner", newInner)
       [] type = "error" ->
            Emit(OutError(st, p), Event("error", node, NoSubId, NoValue))
       [] OTHER ->
            IF me.inner = 0 \/ st.inst[me.inner].closed
            THEN Emit(OutComplete(s1, p),
                      Event("complete", node, NoSubId, NoValue))
            ELSE s1

\* the custom switchMapTo: handlers of primarySource$.subscribe (port 1)
SwitchOuterInput(st, p, type, v) ==
  LET me == st.inst[p]
      node == me.o.node
      sec == me.o.sec
      secId == SwitchId(node, me.sid)
      cancelled ==
        IF me.inner # 0
        THEN Close(Emit(st, Event("unsubscribe", sec, secId, NoValue)),
                   me.inner)
        ELSE st
      fresh ==
        IF FindNode(st.ns, sec).type = "observable"
           /\ Get(st.obs, sec).k # "none"
        THEN Get(st.obs, sec) ELSE me.o.ins[2]
      announced == Emit(cancelled, Event("subscribe", sec, secId, NoValue))
      newInner == Len(announced.inst) + 1
      s1 == SetI(st, p, "done", TRUE)
  IN CASE type = "next" ->
            SetI(Subscribe(announced, fresh, p, 2), p, "inner", newInner)
       [] type = "error" ->
            Emit(OutError(st, p), Event("error", node, NoSubId, NoValue))
       [] OTHER ->
            IF me.inner = 0 \/ st.inst[me.inner].closed
            THEN Emit(OutComplete(s1, p),
                      Event("complete", node, NoSubId, NoValue))
            ELSE s1

\* variant: the inner completion completes the operator unconditionally
SwitchInnerInputEager(st, p, type, v) ==
  LET node == st.inst[p].o.node
  IN CASE type = "next" ->
            Emit(OutNext(st, p, v), Event("next", node, NoSubId, v))
       [] type = "error" ->
            Emit(OutError(st, p), Event("error", node, NoSubId, NoValue))
       [] OTHER ->
            Emit(OutComplete(st, p), Event("complete", node, NoSubId, NoValue))

\* handlers of freshSecondarySource$.subscribe (port 2)
SwitchInnerInput(st, p, type, v) ==
  LET me == st.inst[p]
      node == me.o.node
  IN CASE type = "next" ->
            Emit(OutNext(st, p, v), Event("next", node, NoSubId, v))
       [] type = "error" ->
            Emit(OutError(st, p), Event("error", node, NoSubId, NoValue))
       [] OTHER ->
            IF me.done
            THEN Emit(OutComplete(st, p),
                      Event("complete", node, NoSubId, NoValue))
            ELSE st

\* variant: the first input to complete completes the merge
MergeInputFirst(st, p, type, v) ==
  CASE type = "next" -> OutNext(st, p, v)
    [] type = "error" -> OutError(st, p)
    [] OTHER -> OutComplete(st, p)

\* merge(...inputs): forwards everything, completes after the last input
MergeInput(st, p, type, v) ==
  LET me == st.inst[p]
      s1 == SetI(st, p, "cnt", me.cnt + 1)
  IN CASE type = "next" -> OutNext(st, p, v)
       [] type = "error" -> OutError(st, p)
       [] OTHER ->
            IF me.done /\ me.cnt + 1 = Len(me.o.ins)
            THEN OutComplete(s1, p) ELSE s1

\* variant: the other inputs stay subscribed after the first value
RaceInputAll(st, p, port, type, v) ==
  CASE type = "next" -> OutNext(SetI(st, p, "inner", port), p, v)
    [] type = "error" -> OutError(st, p)
    [] OTHER -> OutComplete(st, p)

\* race(...inputs): the first input to emit wins, the others are unsubscribed
RaceInput(st, p, port, type, v) ==
  LET me == st.inst[p]
      losers == SelectSeq(Kids(st, p), LAMBDA j : st.inst[j].port # port)
      s1 == IF me.inner = 0
            THEN CloseAll(SetI(st, p, "inner", port), losers) ELSE st
  IN CASE type = "next" -> OutNext(s1, p, v)
       [] type = "error" -> OutError(st, p)
       [] OTHER -> OutComplete(st, p)

\* primary.pipe(takeUntil(secondary)): port 1 primary, port 2 notifier
TakeUntilInput(st, p, port, type, v) ==
  IF port = 2
  THEN CASE type = "next" -> OutComplete(st, p)
         [] type = "error" -> OutError(st, p)
         [] OTHER -> st
  ELSE CASE type = "next" -> OutNext(st, p, v)
         [] type = "error" -> OutError(st, p)
         [] OTHER -> OutComplete(st, p)

\* map(mapFn) and filter(filterFn): a function that throws makes the
\* operator signal the error downstream
MapFilterInput(st, p, type, v) ==
  LET o == st.inst[p].o
  IN CASE type = "next" ->
            IF Parses(o.cfg) /\ Throws(o.cfg) THEN OutError(st, p)
            ELSE IF o.k = "map" THEN OutNext(st, p, MapFn(o.cfg, v))
            ELSE IF FilterFn(o.cfg, v) THEN OutNext(st, p, v)
            ELSE st
       [] type = "error" -> OutError(st, p)
       [] OTHER -> OutComplete(st, p)

InputStep(st, p, port, type, v) ==
  LET k == st.inst[p].o.k
  IN CASE k = "take" -> TakeInput(st, p, type, v)
       [] k = "switchMapTo" ->
            IF port = 1 THEN SwitchOuterInput(st, p, type, v)
            ELSE SwitchInnerInput(st, p, type, v)
       [] k = "merge" -> MergeInput(st, p, type, v)
       [] k = "race" -> RaceInput(st, p, port, type, v)
       [] k = "takeUntil" -> TakeUntilInput(st, p, port, type, v)
       [] k \in {"map", "filter"} -> MapFilterInput(st, p, type, v)
       [] OTHER ->   \* the default branch result$ = source$
            CASE type = "next" -> OutNext(st, p, v)
              [] type = "error" -> OutError(st, p)
              [] OTHER -> OutComplete(st, p)

\* subscribing each input of a merge or race in turn
SubscribeInputs(st, i) ==
  LET ins == st.inst[i].o.ins
      race == st.inst[i].o.k = "race"
      f[j \in 0..Len(ins)] ==
        IF j = 0 THEN st
        ELSE IF f[j-1].inst[i].closed \/ (race /\ f[j-1].inst[i].inner # 0)
             THEN f[j-1]
             ELSE Subscribe(f[j-1], ins[j], i, j)
  IN f[Len(ins)]

\* the instance of a new subscription and everything it does synchronously
SubscribeStep(st, o, parent, port) ==
  LET i == Len(st.inst) + 1
      s0 == [st EXCEPT !.inst = Append(@, Inst(o, parent, port))]
      emitAll[j \in 0..Len(o.values)] ==
        IF j = 0 THEN s0 ELSE OutNext(emitAll[j-1], i, o.values[j])
      registered ==
        LET s1 == Subscribe(IF o.k = "switchMapTo"
                            THEN SetI(s0, i, "sid", s0.clock) ELSE s0,
                            o.ins[1], i, 1)
            s2 == [s1 EXCEPT !.inst[i] = [@ EXCEPT !.outer = i + 1,
                                                    !.td = TRUE]]
        IN IF s2.inst[i].closed THEN Finalizers(s2, i) ELSE s2
      merged ==
        LET s1 == SetI(SubscribeInputs(s0, i), i, "done", TRUE)
        IN IF s1.inst[i].cnt = Len(o.ins) THEN OutComplete(s1, i) ELSE s1
      until ==
        LET s1 == Subscribe(s0, o.ins[2], i, 2)
        IN IF s1.inst[i].closed THEN s1 ELSE Subscribe(s1, o.ins[1], i, 1)
  IN CASE o.k \in {"interval", "probabilistic"} -> SetI(s0, i, "timer", TRUE)
       [] o.k = "fetch" -> SetI(s0, i, "then", TRUE)
       [] o.k = "never" -> s0
       [] o.k = "empty" -> OutComplete(s0, i)
       [] o.k = "array" -> OutComplete(emitAll[Len(o.values)], i)
       [] Custom(o.k) -> registered
       [] o.k = "merge" -> merged
       [] o.k = "race" -> SubscribeInputs(s0, i)
       [] o.k = "takeUntil" -> until
       [] OTHER -> Subscribe(s0, o.ins[1], i, 1)

Run(st, c) ==
  CASE c.op = "subscribe" -> SubscribeStep(st, c.o, c.parent, c.port)
    [] c.op = "next" -> NextStep(st, c.i, c.v)
    [] c.op = "error" -> ErrorStep(st, c.i)
    [] c.op = "complete" -> CompleteStep(st, c.i)
    [] c.op = "close" -> CloseStep(st, c.i)
    [] OTHER -> InputStep(st, c.i, c.port, c.type, c.v)

-----------------------------------------------------------------------------
(* The run *)

St ==
  [inst |-> inst, bus |-> bus, busStopped |-> busStopped,
   listening |-> listening, heard |-> heard,
   nodeSubscriptions |-> nodeSubscriptions,
   subscriberLogs |-> subscriberLogs, clock |-> clock,
   obs |-> nodeObservables, ns |-> nodes, es |-> edges]

Commit(st) ==
  /\ inst' = st.inst
  /\ bus' = st.bus
  /\ busStopped' = st.busStopped
  /\ listening' = st.listening
  /\ heard' = st.heard
  /\ nodeSubscriptions' = st.nodeSubscriptions
  /\ subscriberLogs' = st.subscriberLogs

\* the subscription loop: count subscriptions on every node that has a
\* producer, each with a fresh sub_N and a subscribe event deferred by
\* setTimeout(..., 0)
SubscribeNode(r, node, count) ==
  LET f[i \in 0..count] ==
        IF i = 0 THEN r
        ELSE LET q == f[i-1]
                 id == Len(q.st.inst) + 1
             IN [st |-> Subscribe(q.st, Get(q.st.obs, node.id), 0, q.counter),
                 subs |-> Append(q.subs, id),
                 counter |-> q.counter + 1,
                 pending |-> Append(q.pending,
                                    Event("subscribe", node.id,
                                          SubId(q.counter), NoValue))]
  IN f[count]

SubscribeAll(st, counts) ==
  LET f[i \in 0..Len(st.ns)] ==
        IF i = 0
        THEN [st |-> st, subs |-> <<>>, counter |-> 0, pending |-> <<>>]
        ELSE IF CountOf(counts, st.ns[i].id) > 0
                /\ Get(st.obs, st.ns[i].id).k # "none"
             THEN SubscribeNode(f[i-1], st.ns[i], CountOf(counts, st.ns[i].id))
             ELSE f[i-1]
  IN f[Len(st.ns)]

FetchNodes(ns) ==
  {ns[i].id : i \in {j \in DOMAIN ns :
                       ns[j].type = "observable" /\ ns[j].kind = "fetch"}}

\* useEffect body, first half: buildRxStream(nodes, edges, eventObserver)
BuildRxStream ==
  /\ isPlaying
  /\ pc = "idle"
  /\ LET obs == BuildObservables(nodes, edges)
         counts == AllSubscriptionCounts(nodes, edges)
         r == SubscribeAll([St EXCEPT !.obs = obs], counts.memo)
     IN IF counts.raised
        THEN /\ pc' = "raised"
             /\ nodeObservables' = obs
             /\ UNCHANGED <<nodeSubscriptionCounts, inst, subscriptions,
                            subscriptionCounter, pendingSub, fetchState, bus,
                            busStopped, listening, heard, nodeSubscriptions,
                            subscriberLogs>>
        ELSE /\ pc' = "built"
             /\ nodeObservables' = obs
             /\ nodeSubscriptionCounts' = counts.memo
             /\ Commit(r.st)
             /\ subscriptions' = r.subs
             /\ subscriptionCounter' = r.counter
             /\ pendingSub' = r.pending
             /\ fetchState' = [n \in FetchNodes(nodes) |-> "pending"]
  /\ UNCHANGED <<ui, nodes, edges, clock, ticks, unsubCalls>>

\* useEffect body, second half: eventObserver.subscribe(handler)
AttachListener ==
  /\ pc = "built"
  /\ pc' = "running"
  /\ listening' = TRUE
  /\ UNCHANGED <<ui, nodes, edges, nodeObservables, nodeSubscriptionCounts, inst,
                 subscriptions, subscriptionCounter, pendingSub, fetchState,
                 bus, busStopped, heard, nodeSubscriptions, subscriberLogs,
                 clock, ticks, unsubCalls>>

Live == pc \in {"running", "stopped"}

\* promise callbacks (microtasks) run before the next timer callback
MicrotaskPending ==
  \E i \in DOMAIN inst :
    inst[i].then /\ fetchState[inst[i].o.node] # "pending"

\* setTimeout(() => eventSubject.next(subscribeEvent), 0)
DeferredSubscribe ==
  /\ Live
  /\ ~MicrotaskPending
  /\ pendingSub # <<>>
  /\ Commit(Emit(St, Head(pendingSub)))
  /\ pendingSub' = Tail(pendingSub)
  /\ UNCHANGED <<ui, nodes, edges, pc, nodeObservables, nodeSubscriptionCounts,
                 subscriptions, subscriptionCounter, fetchState, clock, ticks,
                 unsubCalls>>

\* timers with a positive delay run after the zero-delay ones of the build
TimerPending(i) ==
  /\ Live
  /\ ~MicrotaskPending
  /\ pendingSub = <<>>
  /\ inst[i].timer

TimerReady(i) == TimerPending(i) /\ ticks < MaxTicks

\* variant: the subscriptions of a node share one timer and one counter
IntervalTickShared(i) ==
  /\ TimerReady(i)
  /\ inst[i].o.k = "interval"
  /\ LET now == [St EXCEPT !.clock = clock + 1]
         shared == Cardinality({e \in DOMAIN bus :
                      bus[e].type = "next"
                      /\ bus[e].nodeId = inst[i].o.node
                      /\ inst[i].parent = 0})
     IN Commit(OutNext(SetI(now, i, "cnt", inst[i].cnt + 1), i,
                       IF inst[i].parent = 0 THEN shared ELSE inst[i].cnt))
  /\ clock' = clock + 1
  /\ ticks' = ticks + 1
  /\ UNCHANGED <<ui, nodes, edges, pc, nodeObservables, nodeSubscriptionCounts,
                 subscriptions, subscriptionCounter, pendingSub, fetchState,
                 unsubCalls>>

\* interval(period): the timer callback of one subscription
IntervalFire(i) ==
  /\ inst[i].o.k = "interval"
  /\ LET now == [St EXCEPT !.clock = clock + 1]
     IN Commit(OutNext(SetI(now, i, "cnt", inst[i].cnt + 1), i, inst[i].cnt))
  /\ clock' = clock + 1
  /\ ticks' = ticks + 1
  /\ UNCHANGED <<ui, nodes, edges, pc, nodeObservables, nodeSubscriptionCounts,
                 subscriptions, subscriptionCounter, pendingSub, fetchState,
                 unsubCalls>>

\* one tick of one subscription's timer
IntervalTick(i) == TimerReady(i) /\ IntervalFire(i)

\* Math.random(), in percent: a number of [0, 1)
RandomDraws == {0, 50, 99}

\* the probabilistic source's setTimeout callback: random <= successRate or not
ProbabilisticFire(i, success) ==
  /\ TimerReady(i)
  /\ inst[i].o.k = "probabilistic"
  /\ \E random \in RandomDraws : success = (random <= inst[i].o.count)
  /\ LET now == SetI([St EXCEPT !.clock = clock + 1], i, "timer", FALSE)
     IN Commit(IF success
               THEN OutComplete(OutNext(now, i, SuccessValue), i)
               ELSE OutError(now, i))
  /\ clock' = clock + 1
  /\ ticks' = ticks + 1
  /\ UNCHANGED <<ui, nodes, edges, pc, nodeObservables, nodeSubscriptionCounts,
                 subscriptions, subscriptionCounter, pendingSub, fetchState,
                 unsubCalls>>

\* fetch(url).then(res => res.json()) settles; one request per run
FetchSettle(n, ok) ==
  /\ Live
  /\ n \in DOMAIN fetchState
  /\ fetchState[n] = "pending"
  /\ fetchState' = [fetchState EXCEPT ![n] = IF ok THEN "fulfilled"
                                             ELSE "rejected"]
  /\ UNCHANGED <<ui, nodes, edges, pc, nodeObservables, nodeSubscriptionCounts,
                 inst, subscriptions, subscriptionCounter, pendingSub, bus,
                 busStopped, listening, heard, nodeSubscriptions,
                 subscriberLogs, clock, ticks, unsubCalls>>

\* from(promise): the then-callback of one subscription
PromiseThen(i) ==
  /\ Live
  /\ inst[i].then
  /\ fetchState[inst[i].o.node] # "pending"
  /\ LET s0 == SetI(St, i, "then", FALSE)
     IN Commit(IF fetchState[inst[i].o.node] = "fulfilled"
               THEN IF inst[i].closed THEN s0
                    ELSE OutComplete(OutNext(s0, i, FetchValue), i)
               ELSE OutError(s0, i))
  /\ UNCHANGED <<ui, nodes, edges, pc, nodeObservables, nodeSubscriptionCounts,
                 subscriptions, subscriptionCounter, pendingSub, fetchState,
                 clock, ticks, unsubCalls>>

\* variant: every subscription announces its end at each call, and the
\* subject stays open
TeardownAnnounce(st) ==
  LET f[j \in 0..Len(subscriptions)] ==
        IF j = 0 THEN CloseAll(st, subscriptions)
        ELSE Emit(f[j - 1],
                  Event("unsubscribe", inst[subscriptions[j]].o.node,
                        SubId(inst[subscriptions[j]].port), NoValue))
  IN f[Len(subscriptions)]

\* variant: the subject is not completed
TeardownOpenBus(st) == CloseAll(st, subscriptions)

\* the unsubscribe() returned by buildRxStream
Teardown(st) ==
  [CloseAll(st, subscriptions) EXCEPT !.busStopped = TRUE]

\* the effect's cleanup: detach the listener, then unsubscribe()
Cleanup ==
  /\ pc = "running"
  /\ pc' = "stopped"
  /\ Commit(Teardown([St EXCEPT !.listening = FALSE]))
  /\ unsubCalls' = unsubCalls + 1
  /\ UNCHANGED <<ui, nodes, edges, nodeObservables, nodeSubscriptionCounts,
                 subscriptions, subscriptionCounter, pendingSub, fetchState,
                 clock, ticks>>

\* a further call of unsubscribe()
Unsubscribe ==
  /\ pc = "stopped"
  /\ unsubCalls < MaxUnsubCalls
  /\ Commit(Teardown(St))
  /\ unsubCalls' = unsubCalls + 1
  /\ UNCHANGED <<ui, nodes, edges, pc, nodeObservables, nodeSubscriptionCounts,
                 subscriptions, subscriptionCounter, pendingSub, fetchState,
                 clock, ticks>>

-----------------------------------------------------------------------------
(* Sample library: export and import of the graph as JSON.  An object is   *)
(* the function from the keys it has to their values: JSON.stringify       *)
(* leaves out a property whose value is undefined and writes NaN as null,  *)
(* and a key that is missing reads back as undefined.                      *)

\* the import box before anything was exported or pasted
NoData == [ok |-> FALSE, nodes |-> <<>>, edges |-> <<>>]

\* a take whose config.count is NaN (parseInt of an empty input)
TakeNaN(id) == Node(id, "operator", "take", FALSE, 0, <<>>, "nan")

StringifyNode(n) ==
  LET keys == {"id", "type", "kind"}
              \cup (IF n.multi THEN {"multi"} ELSE {})
              \cup (IF n.count # 0 THEN {"count"} ELSE {})
              \cup (IF n.values # <<>> THEN {"values"} ELSE {})
              \cup (IF n.cfg # "" THEN {"cfg"} ELSE {})
  IN [k \in keys |->
        CASE k = "id" -> n.id
          [] k = "type" -> n.type
          [] k = "kind" -> n.kind
          [] k = "multi" -> n.multi
          [] k = "count" -> n.count
          [] k = "values" -> n.values
          [] OTHER -> IF n.cfg = "nan" THEN "null" ELSE n.cfg]

StringifyEdge(e) ==
  LET keys == {"source", "target"}
              \cup (IF e.handle # "none" THEN {"targetHandle"} ELSE {})
  IN [k \in keys |->
        CASE k = "source" -> e.source
          [] k = "target" -> e.target
          [] OTHER -> e.handle]

\* variant: the edges are written as an object keyed by their target, so
\* that of several edges into one node only the last is kept
StringifyEdgesByTarget(es) ==
  LET kept == SelectSeq([i \in DOMAIN es |-> i],
                        LAMBDA i : \A j \in DOMAIN es :
                                      es[j].target = es[i].target => j <= i)
  IN [i \in DOMAIN kept |-> StringifyEdge(es[kept[i]])]

\* an array is written element by element, in order
StringifyEdges(es) == [i \in DOMAIN es |-> StringifyEdge(es[i])]

\* JSON.stringify({nodes: currentNodes, edges: currentEdges}, null, 2)
Stringify(ns, es) ==
  [ok |-> TRUE,
   nodes |-> [i \in DOMAIN ns |-> StringifyNode(ns[i])],
   edges |-> StringifyEdges(es)]

ParseNode(j) ==
  LET Has(k) == k \in DOMAIN j
  IN Node(j.id, j.type, j.kind,
          IF Has("multi") THEN j.multi ELSE FALSE,
          IF Has("count") THEN j.count ELSE 0,
          IF Has("values") THEN j.values ELSE <<>>,
          IF Has("cfg") THEN j.cfg ELSE "")

ParseEdge(j) ==
  Edge(j.source, j.target,
       IF "targetHandle" \in DOMAIN j THEN j.targetHandle ELSE "none")

\* JSON.parse(importData), as handleImport reads it
Parse(data) ==
  [ns |-> [i \in DOMAIN data.nodes |-> ParseNode(data.nodes[i])],
   es |-> [i \in DOMAIN data.edges |-> ParseEdge(data.edges[i])]]

\* handleExport; the exported file is what the user imports later
HandleExport ==
  /\ importData' = Stringify(nodes, edges)
  /\ UNCHANGED <<isPlaying, restartTimers, updates, nodes, edges, pc,
                 nodeObservables, nodeSubscriptionCounts, inst, subscriptions,
                 subscriptionCounter, pendingSub, fetchState, bus, busStopped,
                 listening, heard, nodeSubscriptions, subscriberLogs, clock,
                 ticks, unsubCalls>>

\* handleImport and handleSampleSelect, while the session is not playing
HandleImport ==
  /\ ~isPlaying
  /\ importData.ok
  /\ nodes' = Parse(importData).ns
  /\ edges' = Parse(importData).es
  /\ UNCHANGED <<isPlaying, restartTimers, updates, importData, pc,
                 nodeObservables, nodeSubscriptionCounts, inst, subscriptions,
                 subscriptionCounter, pendingSub, fetchState, bus, busStopped,
                 listening, heard, nodeSubscriptions, subscriberLogs, clock,
                 ticks, unsubCalls>>

-----------------------------------------------------------------------------
(* The page around the run: play/pause, config updates, reset.  A handler  *)
(* and the effects it triggers run to completion before the next event.    *)

MaxUpdates == 2

\* no effect is in the middle of its body
Settled == IF isPlaying THEN pc = "running" ELSE pc \in {"idle", "stopped"}

\* the effect runs again with isPlaying true: a new Subject, a new build;
\* its logs and status maps start empty, the clock is read from its start
StartRun ==
  /\ pc' = "idle"
  /\ nodeObservables' = <<>>
  /\ nodeSubscriptionCounts' = <<>>
  /\ inst' = <<>>
  /\ subscriptions' = <<>>
  /\ subscriptionCounter' = 0
  /\ pendingSub' = <<>>
  /\ fetchState' = <<>>
  /\ bus' = <<>>
  /\ busStopped' = FALSE
  /\ listening' = FALSE
  /\ heard' = <<>>
  /\ nodeSubscriptions' = <<>>
  /\ subscriberLogs' = <<>>
  /\ clock' = 0
  /\ ticks' = 0
  /\ unsubCalls' = 0

\* the cleanup of the running effect, then the effect with isPlaying false
StopRun ==
  /\ pc' = "stopped"
  /\ Commit([Teardown([St EXCEPT !.listening = FALSE])
               EXCEPT !.nodeSubscriptions = <<>>])
  /\ unsubCalls' = unsubCalls + 1
  /\ UNCHANGED <<nodeObservables, nodeSubscriptionCounts, subscriptions,
                 subscriptionCounter, pendingSub, fetchState, clock, ticks>>

RunUnchanged ==
  UNCHANGED <<pc, nodeObservables, nodeSubscriptionCounts, inst,
              subscriptions, subscriptionCounter, pendingSub, fetchState, bus,
              busStopped, listening, heard, nodeSubscriptions, subscriberLogs,
              clock, ticks, unsubCalls>>

\* handlePlay: setIsPlaying(!isPlaying)
HandlePlay ==
  /\ Settled
  /\ isPlaying' = ~isPlaying
  /\ IF isPlaying THEN StopRun ELSE StartRun
  /\ UNCHANGED <<restartTimers, updates, importData, nodes, edges>>

\* variant: the new configuration is stored and the run stopped, with no
\* restart scheduled
UpdateNodeConfigNoRestart(i, count) ==
  /\ Settled
  /\ updates < MaxUpdates
  /\ updates' = updates + 1
  /\ nodes' = [nodes EXCEPT ![i].count = count]
  /\ IF isPlaying
     THEN isPlaying' = FALSE /\ StopRun
     ELSE UNCHANGED isPlaying /\ RunUnchanged
  /\ UNCHANGED <<restartTimers, importData, edges>>

\* updateNodeConfig(nodeId, {count})
UpdateNodeConfig(i, count) ==
  /\ Settled
  /\ updates < MaxUpdates
  /\ updates' = updates + 1
  /\ nodes' = [nodes EXCEPT ![i].count = count]
  /\ IF isPlaying
     THEN /\ isPlaying' = FALSE
          /\ restartTimers' = restartTimers + 1
          /\ StopRun
     ELSE /\ UNCHANGED <<isPlaying, restartTimers>>
          /\ RunUnchanged
  /\ UNCHANGED <<importData, edges>>

\* the callback of setTimeout(() => setIsPlaying(true), 50)
RestartTimer ==
  /\ Settled
  /\ restartTimers > 0
  /\ restartTimers' = restartTimers - 1
  /\ isPlaying' = TRUE
  /\ IF isPlaying THEN RunUnchanged ELSE StartRun
  /\ UNCHANGED <<updates, importData, nodes, edges>>

\* handleReset
HandleReset ==
  /\ Settled
  /\ isPlaying' = FALSE
  /\ nodes' = <<>>
  /\ edges' = <<>>
  /\ IF isPlaying
     THEN /\ pc' = "stopped"
          /\ Commit([Teardown([St EXCEPT !.listening = FALSE])
                       EXCEPT !.nodeSubscriptions = <<>>,
                              !.subscriberLogs = <<>>])
          /\ unsubCalls' = unsubCalls + 1
          /\ UNCHANGED <<nodeObservables, nodeSubscriptionCounts,
                         subscriptions, subscriptionCounter, pendingSub,
                         fetchState, clock, ticks>>
     ELSE /\ nodeSubscriptions' = <<>>
          /\ subscriberLogs' = <<>>
          /\ UNCHANGED <<pc, nodeObservables, nodeSubscriptionCounts, inst,
                         subscriptions, subscriptionCounter, pendingSub,
                         fetchState, bus, busStopped, listening, heard, clock,
                         ticks, unsubCalls>>
  /\ UNCHANGED <<restartTimers, updates, importData>>

\* handleSampleSelect(sample): the nodes and edges change; with isPlaying
\* true the cleanup of the running effect runs now and its body runs again
\* (EffectRerun); with isPlaying false the effect clears the status map
HandleSampleSelect(ns, es) ==
  /\ Settled
  /\ nodes' = ns
  /\ edges' = es
  /\ IF isPlaying
     THEN /\ pc' = "stopped"
          /\ Commit(Teardown([St EXCEPT !.listening = FALSE]))
          /\ unsubCalls' = unsubCalls + 1
          /\ UNCHANGED <<nodeObservables, nodeSubscriptionCounts,
                         subscriptions, subscriptionCounter, pendingSub,
                         fetchState, clock, ticks>>
     ELSE /\ nodeSubscriptions' = <<>>
          /\ UNCHANGED <<pc, nodeObservables, nodeSubscriptionCounts, inst,
                         subscriptions, subscriptionCounter, pendingSub,
                         fetchState, bus, busStopped, listening, heard,
                         subscriberLogs, clock, ticks, unsubCalls>>
  /\ UNCHANGED ui

\* the effect body after a cleanup that left isPlaying true
EffectRerun ==
  /\ isPlaying
  /\ pc = "stopped"
  /\ StartRun
  /\ UNCHANGED <<ui, nodes, edges>>

-----------------------------------------------------------------------------
(* Graphs the canvas can build *)

E(a, b) == Edge(a, b, "none")

Graphs ==
  { [ns |-> <<Src("iv", "interval"), Sink("k1")>>,
     es |-> <<E("iv", "k1")>>],
    [ns |-> <<Arr("ar", <<11, 12>>), Sink("k1")>>,
     es |-> <<E("ar", "k1")>>],
    [ns |-> <<Src("iv", "interval"), Sink("k1"), Sink("k2")>>,
     es |-> <<E("iv", "k1"), E("iv", "k2")>>],
    [ns |-> <<Src("iv", "interval"), Take("tk", 2), Sink("k1")>>,
     es |-> <<E("iv", "tk"), E("tk", "k1")>>],
    [ns |-> <<Src("iv", "interval"), Arr("ar", <<11, 12>>),
              Dual("sw", "switchMapTo"), Sink("k1")>>,
     es |-> <<Edge("iv", "sw", "primary"), Edge("ar", "sw", "secondary"),
              E("sw", "k1")>>],
    [ns |-> <<Arr("ar", <<11, 12>>), Src("pr", "probabilistic"),
              Dual("sw", "switchMapTo"), Sink("k1")>>,
     es |-> <<Edge("ar", "sw", "primary"), Edge("pr", "sw", "secondary"),
              E("sw", "k1")>>],
    [ns |-> <<Src("pr", "probabilistic"), Arr("ar", <<11, 12>>),
              Dual("sw", "switchMapTo"), Sink("k1")>>,
     es |-> <<Edge("pr", "sw", "primary"), Edge("ar", "sw", "secondary"),
              E("sw", "k1")>>],
    [ns |-> <<Arr("ar", <<11, 12>>), Arr("a2", <<21, 22>>),
              Dual("sw", "switchMapTo"), Sink("k1")>>,
     es |-> <<Edge("ar", "sw", "primary"), Edge("a2", "sw", "secondary"),
              E("sw", "k1")>>],
    [ns |-> <<Src("pr", "probabilistic"), Src("p2", "probabilistic"),
              Dual("sw", "switchMapTo"), Sink("k1")>>,
     es |-> <<Edge("pr", "sw", "primary"), Edge("p2", "sw", "secondary"),
              E("sw", "k1")>>],
    [ns |-> <<Src("em", "empty"), Arr("ar", <<11, 12, 13>>),
              Multi("mg", "merge"), Sink("k1")>>,
     es |-> <<E("em", "mg"), E("ar", "mg"), E("mg", "k1")>>],
    [ns |-> <<Arr("ar", <<11, 12, 13>>), Src("em", "empty"),
              Multi("mg", "merge"), Sink("k1"), Sink("k2")>>,
     es |-> <<E("ar", "mg"), E("em", "mg"), E("mg", "k1"), E("mg", "k2")>>],
    [ns |-> <<Src("i1", "interval"), Src("i2", "interval"),
              Multi("rc", "race"), Sink("k1")>>,
     es |-> <<E("i1", "rc"), E("i2", "rc"), E("rc", "k1")>>],
    [ns |-> <<Src("iv", "interval"), Multi("mg", "merge"), Sink("k1")>>,
     es |-> <<E("iv", "mg"), E("mg", "k1")>>],
    [ns |-> <<Src("iv", "interval"), Dual("tu", "takeUntil"), Sink("k1")>>,
     es |-> <<Edge("iv", "tu", "primary"), E("tu", "k1")>>],
    [ns |-> <<Src("iv", "interval"), Op("o1", "map"), Op("o2", "map"),
              Sink("k1")>>,
     es |-> <<E("iv", "o1"), E("o1", "o2"), E("o2", "o1"), E("o2", "k1")>>],
    [ns |-> <<Src("iv", "interval"), Op("mp", "map"), Sink("k1"), Sink("k2"),
              Sink("k3")>>,
     es |-> <<E("iv", "k1"), E("iv", "mp"), E("mp", "k2"), E("mp", "k3")>>],
    [ns |-> <<Src("iv", "interval"), Take("tk", 2), Sink("k1"), Sink("k2")>>,
     es |-> <<E("iv", "tk"), E("tk", "k1"), E("tk", "k2")>>],
    [ns |-> <<Src("iv", "interval")>>, es |-> <<>>],
    [ns |-> <<Src("pr", "probabilistic"), Op("mp", "map"), Sink("k1")>>,
     es |-> <<E("pr", "mp"), E("mp", "k1")>>],
    [ns |-> <<Src("ft", "fetch"), Sink("k1")>>,
     es |-> <<E("ft", "k1")>>],
    [ns |-> <<Src("em", "empty"), Sink("k1")>>,
     es |-> <<E("em", "k1")>>],
    [ns |-> <<Src("iv", "interval"), Src("pr", "probabilistic"),
              Dual("tu", "takeUntil"), Sink("k1")>>,
     es |-> <<Edge("iv", "tu", "primary"), Edge("pr", "tu", "secondary"),
              E("tu", "k1")>>],
    [ns |-> <<ArrBad("ar"), Sink("k1")>>,
     es |-> <<E("ar", "k1")>>],
    [ns |-> <<Arr("ar", <<11, 12>>), OpCfg("mp", "map", "bad"), Sink("k1")>>,
     es |-> <<E("ar", "mp"), E("mp", "k1")>>],
    [ns |-> <<Arr("ar", <<11, 12>>), OpCfg("fl", "filter", "bad"),
              Sink("k1")>>,
     es |-> <<E("ar", "fl"), E("fl", "k1")>>],
    [ns |-> <<Arr("ar", <<11, 12>>), OpCfg("fl", "filter", "odd"),
              Sink("k1")>>,
     es |-> <<E("ar", "fl"), E("fl", "k1")>>],
    [ns |-> <<Arr("ar", <<11, 12>>), OpCfg("mp", "map", "notfn"),
              Sink("k1")>>,
     es |-> <<E("ar", "mp"), E("mp", "k1")>>],
    [ns |-> <<Src("iv", "interval"), OpCfg("fl", "filter", "notfn"),
              Sink("k1")>>,
     es |-> <<E("iv", "fl"), E("fl", "k1")>>],
    [ns |-> <<Src("iv", "interval"), Op("o1", "map"), Sink("k1"),
              Sink("k2")>>,
     es |-> <<E("gh", "o1"), E("o1", "k1"), E("iv", "gx"), E("iv", "k2")>>],
    [ns |-> <<Src("iv", "interval"), Dual("sw", "switchMapTo"), Sink("k1")>>,
     es |-> <<Edge("iv", "sw", "primary"), Edge("gh", "sw", "secondary"),
              E("sw", "k1")>>],
    [ns |-> <<Multi("mg", "merge"), Sink("k1")>>,
     es |-> <<E("g1", "mg"), E("g2", "mg"), E("mg", "k1")>>],
    [ns |-> <<Arr("ar", <<11, 12, 13>>), Take("tk", 2), Sink("k1"),
              Sink("k2")>>,
     es |-> <<E("ar", "tk"), E("tk", "k1"), E("tk", "k2")>>],
    [ns |-> <<Arr("a1", <<11, 12>>), Arr("a2", <<21, 22>>), Op("mp", "map"),
              Multi("mg", "merge"), Sink("k1")>>,
     es |-> <<E("a1", "mg"), E("a2", "mp"), E("mp", "mg"), E("mg", "k1")>>],
    [ns |-> <<Arr("a1", <<11>>), Arr("a2", <<21, 22>>),
              Dual("sw", "switchMapTo"), Sink("k1")>>,
     es |-> <<Edge("a2", "sw", "secondary"), Edge("a1", "sw", "primary"),
              E("sw", "k1")>>],
    [ns |-> <<Arr("a1", <<11>>), Arr("a2", <<21, 22>>),
              Dual("sw", "switchMapTo"), Sink("k1")>>,
     es |-> <<E("a1", "sw"), E("a2", "sw"), E("sw", "k1")>>],
    [ns |-> <<Prob("pr", 0), Sink("k1"), Sink("k2")>>,
     es |-> <<E("pr", "k1"), E("pr", "k2")>>],
    [ns |-> <<Prob("pr", 100), Sink("k1")>>,
     es |-> <<E("pr", "k1")>>],
    [ns |-> <<Arr("ar", <<11, 12, 13>>), Take("tk", 2), Sink("k1")>>,
     es |-> <<E("ar", "tk"), E("tk", "k1")>>],
    [ns |-> <<Arr("a1", <<11>>), Arr("a2", <<21, 22>>),
              Dual("sw", "switchMapTo"), Sink("k1")>>,
     es |-> <<E("a1", "sw"), Edge("a2", "sw", "secondary"), E("sw", "k1")>>],
    [ns |-> <<Arr("a1", <<11>>), Arr("a2", <<21, 22>>),
              Dual("sw", "switchMapTo"), Sink("k1")>>,
     es |-> <<Edge("a2", "sw", "secondary"), E("a1", "sw"), E("sw", "k1")>>],
    [ns |-> <<Arr("a1", <<11>>), Arr("a2", <<21>>), Multi("m1", "merge"),
              Multi("m2", "merge"), Sink("k1")>>,
     es |-> <<E("a1", "m1"), E("a2", "m1"), E("m1", "m2"), E("a2", "m2"),
              E("m2", "k1")>>],
    [ns |-> <<Arr("a1", <<11>>), Arr("a2", <<21>>), Multi("m2", "merge"),
              Multi("m1", "merge"), Sink("k1")>>,
     es |-> <<E("a1", "m1"), E("a2", "m1"), E("m1", "m2"), E("a2", "m2"),
              E("m2", "k1")>>] }

InitRun ==
  /\ pc = "idle"
  /\ nodeObservables = <<>>
  /\ nodeSubscriptionCounts = <<>>
  /\ inst = <<>>
  /\ subscriptions = <<>>
  /\ subscriptionCounter = 0
  /\ pendingSub = <<>>
  /\ fetchState = <<>>
  /\ bus = <<>>
  /\ busStopped = FALSE
  /\ listening = FALSE
  /\ heard = <<>>
  /\ nodeSubscriptions = <<>>
  /\ subscriberLogs = <<>>
  /\ clock = 0
  /\ ticks = 0
  /\ unsubCalls = 0

\* the page in its first state, with nothing exported
InitPage(playing) ==
  /\ isPlaying = playing
  /\ restartTimers = 0
  /\ updates = 0
  /\ importData = NoData

\* a run: the user has just pressed play on a graph
Init ==
  /\ \E g \in Graphs : nodes = g.ns /\ edges = g.es
  /\ InitRun
  /\ InitPage(TRUE)

Next ==
  \/ BuildRxStream
  \/ AttachListener
  \/ DeferredSubscribe
  \/ \E i \in DOMAIN inst : IntervalTick(i)
  \/ \E i \in DOMAIN inst : \E success \in BOOLEAN : ProbabilisticFire(i, success)
  \/ \E n \in DOMAIN fetchState : \E ok \in BOOLEAN : FetchSettle(n, ok)
  \/ \E i \in DOMAIN inst : PromiseThen(i)
  \/ Cleanup
  \/ Unsubscribe

Spec == Init /\ [][Next]_vars

-----------------------------------------------------------------------------
(* Demand over every small acyclic graph: a source, two single-input       *)
(* operators and two sinks, with any selection of the forward edges (one   *)
(* of them doubled).                                                        *)

DemandNodes ==
  <<Src("s1", "interval"), Op("o1", "map"), Take("o2", 2), Sink("k1"),
    Sink("k2")>>

DemandEdges ==
  <<E("s1", "o1"), E("s1", "o2"), E("s1", "k1"), E("s1", "k2"),
    E("o1", "o2"), E("o1", "k1"), E("o1", "k2"), E("o2", "k1"),
    E("o2", "k2"), E("s1", "k1")>>

\* the edges of DemandEdges whose index is in S, in order
Selection(S) ==
  LET idx == SelectSeq([i \in DOMAIN DemandEdges |-> i], LAMBDA i : i \in S)
  IN [j \in DOMAIN idx |-> DemandEdges[idx[j]]]

InitDemand ==
  /\ nodes = DemandNodes
  /\ \E S \in SUBSET (DOMAIN DemandEdges) : edges = Selection(S)
  /\ InitRun
  /\ InitPage(TRUE)

NextDemand ==
  \/ BuildRxStream
  \/ AttachListener
  \/ DeferredSubscribe

SpecDemand == InitDemand /\ [][NextDemand]_vars

-----------------------------------------------------------------------------
(* Export and import over small graphs: two sources, a take whose count is *)
(* a number, missing or NaN, a switchMapTo and two sinks, with any         *)
(* selection of the edges below.                                            *)

RoundTripTakes == {Take("tk", 2), Take("tk", 0), TakeNaN("tk")}

RoundTripNodes(take) ==
  <<Src("iv", "interval"), Arr("ar", <<11>>), take,
    Dual("sw", "switchMapTo"), Sink("k1"), Sink("k2")>>

RoundTripEdges ==
  <<E("iv", "tk"), E("tk", "k1"), Edge("ar", "sw", "secondary"),
    Edge("iv", "sw", "primary"), Edge("ar", "sw", "null"), E("sw", "k1"),
    E("sw", "k2"), E("iv", "k2")>>

SelectEdges(es, S) ==
  LET idx == SelectSeq([i \in DOMAIN es |-> i], LAMBDA i : i \in S)
  IN [j \in DOMAIN idx |-> es[idx[j]]]

InitRoundTrip ==
  /\ \E take \in RoundTripTakes : nodes = RoundTripNodes(take)
  /\ \E S \in SUBSET (DOMAIN RoundTripEdges) :
       edges = SelectEdges(RoundTripEdges, S)
  /\ InitRun
  /\ InitPage(FALSE)

NextRoundTrip ==
  \/ HandleExport
  \/ HandleImport
  \/ HandlePlay
  \/ BuildRxStream
  \/ AttachListener

SpecRoundTrip == InitRoundTrip /\ [][NextRoundTrip]_vars

-----------------------------------------------------------------------------
(* A session: play, pause, config updates and reset around the runs of a   *)
(* graph.  The restart timer's callback runs once it is due, and an effect *)
(* that has started runs to its end.                                        *)

SessionGraphs ==
  { [ns |-> <<Src("iv", "interval"), Take("tk", 2), Sink("k1")>>,
     es |-> <<E("iv", "tk"), E("tk", "k1")>>],
    [ns |-> <<Arr("ar", <<11, 12>>), Take("tk", 2), Sink("k1")>>,
     es |-> <<E("ar", "tk"), E("tk", "k1")>>],
    [ns |-> <<Src("iv", "interval"), Take("tk", 2), Sink("k1"), Sink("k2")>>,
     es |-> <<E("iv", "tk"), E("tk", "k1"), E("iv", "k2")>>] }

\* the counts the config panel is given (it has a count field for take and
\* skip nodes)
SessionCounts == {1, 3}

InitSession ==
  /\ \E g \in SessionGraphs : nodes = g.ns /\ edges = g.es
  /\ InitRun
  /\ InitPage(FALSE)

NextSession ==
  \/ HandlePlay
  \/ \E i \in {j \in DOMAIN nodes : nodes[j].kind \in {"take", "skip"}} :
       \E count \in SessionCounts : UpdateNodeConfig(i, count)
  \/ RestartTimer
  \/ HandleReset
  \/ \E g \in SessionGraphs : HandleSampleSelect(g.ns, g.es)
  \/ EffectRerun
  \/ BuildRxStream
  \/ AttachListener
  \/ DeferredSubscribe
  \/ \E i \in DOMAIN inst : IntervalTick(i)

\* the effect body moves past its start: the step BuildRxStream takes
BuildStart == isPlaying /\ pc = "idle" /\ pc' \in {"built", "raised"}

SpecSession ==
  /\ InitSession
  /\ [][NextSession]_vars
  /\ WF_vars(RestartTimer)
  /\ WF_vars(EffectRerun)
  /\ WF_pc(BuildStart)
  /\ WF_vars(AttachListener)

-----------------------------------------------------------------------------
(* The listener alone: the handler of eventObserver.subscribe applied to   *)
(* any sequence of up to MaxHeard events about one node, with two          *)
(* subscription ids or none.                                                *)

MaxHeard == 3

EventTypes == {"subscribe", "next", "complete", "error", "unsubscribe"}

ListenerIds == {SubId(0), SubId(1), NoSubId}

InitListener ==
  /\ nodes = <<Src("iv", "interval"), Sink("k1")>>
  /\ edges = <<E("iv", "k1")>>
  /\ pc = "running"
  /\ nodeObservables = <<>>
  /\ nodeSubscriptionCounts = <<>>
  /\ inst = <<>>
  /\ subscriptions = <<>>
  /\ subscriptionCounter = 0
  /\ pendingSub = <<>>
  /\ fetchState = <<>>
  /\ bus = <<>>
  /\ busStopped = FALSE
  /\ listening = TRUE
  /\ heard = <<>>
  /\ nodeSubscriptions = <<>>
  /\ subscriberLogs = <<>>
  /\ clock = 0
  /\ ticks = 0
  /\ unsubCalls = 0
  /\ InitPage(TRUE)

\* one event reaches the handler
Receive(ev) ==
  /\ listening
  /\ Len(heard) < MaxHeard
  /\ Commit(HandleEvent(St, ev))
  /\ UNCHANGED <<ui, nodes, edges, pc, nodeObservables,
                 nodeSubscriptionCounts, subscriptions, subscriptionCounter,
                 pendingSub, fetchState, clock, ticks, unsubCalls>>

NextListener ==
  \E type \in EventTypes : \E sid \in ListenerIds :
    Receive(Event(type, "iv", sid, IF type = "next" THEN 0 ELSE NoValue))

SpecListener == InitListener /\ [][NextListener]_vars

-----------------------------------------------------------------------------
(* A chain timer source -> single-input operator -> sink, for every order  *)
(* of the three nodes in the node list.  All timers of the run belong to   *)
(* subscriptions of the one interval node, so they have the same period    *)
(* and were registered in the same synchronous loop: they fire in rounds,  *)
(* in the order in which they were registered.                             *)

ChainOperators ==
  {Op("op", "map"), OpCfg("op", "map", "inc"), OpCfg("op", "filter", "odd"),
   Take("op", 2)}

Orders(s) ==
  {[i \in 1..3 |-> s[p[i]]] :
     p \in {q \in [1..3 -> 1..3] : \A a, b \in 1..3 : a # b => q[a] # q[b]}}

InitChain ==
  /\ \E o \in ChainOperators :
       nodes \in Orders(<<Src("iv", "interval"), o, Sink("k1")>>)
  /\ edges = <<E("iv", "op"), E("op", "k1")>>
  /\ InitRun
  /\ InitPage(TRUE)

\* the pending timer that fires next: fewest firings so far, and the one
\* registered first among those
TimerDue(i) ==
  /\ inst[i].timer
  /\ \A j \in DOMAIN inst :
       (inst[j].timer /\ j # i) =>
         \/ inst[i].cnt < inst[j].cnt
         \/ inst[i].cnt = inst[j].cnt /\ i < j

IntervalTickDue(i) == TimerDue(i) /\ IntervalTick(i)

NextChain ==
  \/ BuildRxStream
  \/ AttachListener
  \/ DeferredSubscribe
  \/ \E i \in DOMAIN inst : IntervalTickDue(i)
  \/ Cleanup
  \/ Unsubscribe

SpecChain == InitChain /\ [][NextChain]_vars

-----------------------------------------------------------------------------
(* Long runs: a timer source logged by its sinks for up to MaxLogged       *)
(* timer firings, the timers firing in registration order.                 *)

MaxLogged == 23

LoggedGraphs ==
  { [ns |-> <<Src("iv", "interval"), Sink("k1")>>,
     es |-> <<E("iv", "k1")>>],
    [ns |-> <<Src("iv", "interval"), OpCfg("mp", "map", "inc"), Sink("k1")>>,
     es |-> <<E("iv", "mp"), E("mp", "k1")>>],
    [ns |-> <<Src("iv", "interval"), Sink("k1"), Sink("k2")>>,
     es |-> <<E("iv", "k1"), E("iv", "k2")>>] }

InitLogged ==
  /\ \E g \in LoggedGraphs : nodes = g.ns /\ edges = g.es
  /\ InitRun
  /\ InitPage(TRUE)

IntervalTickLogged(i) ==
  /\ TimerPending(i)
  /\ TimerDue(i)
  /\ ticks < MaxLogged
  /\ IntervalFire(i)

NextLogged ==
  \/ BuildRxStream
  \/ AttachListener
  \/ DeferredSubscribe
  \/ \E i \in DOMAIN inst : IntervalTickLogged(i)
  \/ Cleanup
  \/ Unsubscribe

SpecLogged == InitLogged /\ [][NextLogged]_vars

-----------------------------------------------------------------------------
(* Properties *)

IsSink(id) ==
  FindNode(nodes, id).type = "observer" /\ DownstreamEdges(edges, id) = <<>>

\* the edge paths (sequences of edge indices) of length k that leave node n
RECURSIVE PathsFrom(_, _)
PathsFrom(n, k) ==
  IF k = 1 THEN {<<e>> : e \in {x \in DOMAIN edges : edges[x].source = n}}
  ELSE {Append(p, e) : <<p, e>> \in
          {q \in PathsFrom(n, k - 1) \X DOMAIN edges :
             edges[q[2]].source = edges[q[1][Len(q[1])]].target}}

\* the number of distinct edge paths from n to an observer sink
PathsToSinks(n) ==
  Cardinality({p \in UNION {PathsFrom(n, k) : k \in 1..Len(edges)} :
                 IsSink(edges[p[Len(p)]].target)})

HasProducer(n) == Get(nodeObservables, n).k # "none"

\* the multiplexer subscriptions created on node n
SubscriptionsOn(n) ==
  {j \in DOMAIN subscriptions : inst[subscriptions[j]].o.node = n}

SubscribeEventsFor(q, n) ==
  {j \in DOMAIN q : q[j].type = "subscribe" /\ q[j].nodeId = n
                    /\ q[j].subscriptionId[1] = "sub"}

\* C1: on an acyclic graph, a node that has a producer gets as many
\* multiplexer subscriptions as there are distinct edge paths from it to
\* observer sinks, each with its own sub_N and one subscribe event (deferred
\* first, then on the bus).
C1_SubscriptionsEqualPaths ==
  pc \in {"built", "running"} =>
    \A n \in NodeIds(nodes) :
      HasProducer(n) =>
        /\ Cardinality(SubscriptionsOn(n)) = PathsToSinks(n)
        /\ Cardinality({inst[subscriptions[j]].port : j \in SubscriptionsOn(n)})
             = PathsToSinks(n)
        /\ Cardinality(SubscribeEventsFor(pendingSub, n))
           + Cardinality(SubscribeEventsFor(bus, n)) = PathsToSinks(n)

\* a source with direct edges to both sinks and paths through both operators
C1_Witness ==
  /\ pc = "running"
  /\ pendingSub = <<>>
  /\ PathsToSinks("s1") >= 4
  /\ PathsToSinks("o1") = 2
  /\ Cardinality(SubscriptionsOn("s1")) = PathsToSinks("s1")
  /\ Cardinality(SubscribeEventsFor(bus, "s1")) = PathsToSinks("s1")

Delivery == {"next", "complete", "error"}
Terminal == {"completed", "errored", "cancelled"}
TerminalEvents == {"complete", "error", "unsubscribe"}

\* the positions of q holding an event of one of the types for subscription sid
EventsOf(q, types, sid) ==
  {j \in DOMAIN q : q[j].type \in types /\ q[j].subscriptionId = sid}

\* C2: every next, complete or error event of a multiplexer subscription is
\* put on the bus after the subscribe event that carries the same sub_N.
C2_SubscribeFirst ==
  \A j \in DOMAIN bus :
    (bus[j].type \in Delivery /\ bus[j].subscriptionId[1] = "sub") =>
      \E i \in 1..(j - 1) :
        /\ bus[i].type = "subscribe"
        /\ bus[i].subscriptionId = bus[j].subscriptionId

\* C3: nothing is emitted on the bus while buildRxStream executes, and the
\* listener, attached after it returns, hears every event of the run.
C3_NothingMissed ==
  /\ pc = "built" => bus = <<>>
  /\ pc = "running" => heard = bus

\* the tracked states after the listener handled the first k events it heard
TrackedAfter[k \in 0..Len(heard)] ==
  IF k = 0 THEN <<>> ELSE TrackStatus(TrackedAfter[k - 1], heard[k])

\* C4: once the tracked state of a subscriptionId is completed, errored or
\* cancelled, no later event changes it and no later next event carries
\* that subscriptionId.
C4_TerminalIsFinal ==
  \A k \in 0..(Len(heard) - 1) :
    LET before == TrackedAfter[k]
    IN \A key \in DOMAIN before :
         before[key] \in Terminal =>
           \A j \in (k + 1)..Len(heard) :
             /\ StatusOf(TrackedAfter[j], key[1], key[2]) = before[key]
             /\ ~(heard[j].type = "next" /\ heard[j].subscriptionId = key[2])

\* C5: once the run is stopped, every multiplexer subscription has exactly
\* one terminal event (complete, error or unsubscribe) with its sub_N on the
\* bus.
C5_OneTerminalEvent ==
  pc = "stopped" =>
    \A n \in 0..(subscriptionCounter - 1) :
      Cardinality(EventsOf(bus, TerminalEvents, SubId(n))) = 1

\* C6: a second call of unsubscribe() changes neither the subscriptions, nor
\* the timers, nor the bus, and emits no event.
C6_TeardownIdempotent ==
  [][(unsubCalls >= 1 /\ unsubCalls' = unsubCalls + 1) =>
       UNCHANGED <<inst, subscriptions, pendingSub, fetchState, bus,
                   busStopped, listening, heard, nodeSubscriptions,
                   subscriberLogs>>]_vars

\* unsubscribe() was called twice on a run that had live subscriptions and
\* events on the bus
C6_Witness ==
  /\ unsubCalls = 2
  /\ bus # <<>>
  /\ subscriptions # <<>>
  /\ \A j \in DOMAIN subscriptions : inst[subscriptions[j]].closed

\* C7: after unsubscribe() has returned, no event reaches the bus or its
\* observers, whatever fires afterwards.
C7_SilentAfterTeardown ==
  [][pc = "stopped" =>
       UNCHANGED <<bus, heard, nodeSubscriptions, subscriberLogs>>]_vars

\* a deferred subscribe event fired after the teardown and was dropped
C7_Witness ==
  /\ pc = "stopped"
  /\ pendingSub = <<>>
  /\ subscriptionCounter > 0
  /\ \A n \in 0..(subscriptionCounter - 1) :
       EventsOf(bus, {"subscribe"}, SubId(n)) = {}

\* C8: once unsubscribe() has returned, no timer of the run is pending:
\* neither a producer's timer nor a deferred subscribe event.
C8_NoTimerPending ==
  pc = "stopped" =>
    /\ pendingSub = <<>>
    /\ \A i \in DOMAIN inst : ~inst[i].timer

\* C9: a producer node without any downstream edge has reported an event
\* tagged with its node id by the time the run is stopped.
C9_TerminalProducerReports ==
  pc = "stopped" =>
    \A n \in NodeIds(nodes) :
      (HasProducer(n) /\ DownstreamEdges(edges, n) = <<>>) =>
        \E j \in DOMAIN bus : bus[j].nodeId = n

\* C10: for a node with a downstream edge, the next events on the bus are
\* exactly those of its multiplexer subscriptions, one per delivered value.
C10_OneNextPerDelivery ==
  \A n \in NodeIds(nodes) :
    DownstreamEdges(edges, n) # <<>> =>
      \A j \in DOMAIN bus :
        (bus[j].type = "next" /\ bus[j].nodeId = n) =>
          bus[j].subscriptionId[1] = "sub"

\* subscriberLogs.get(k) || []
LogOf(k) == IF k \in DOMAIN subscriberLogs THEN subscriberLogs[k] ELSE <<>>

\* the values of the next events of q that carry node n and subscription sid
ValuesOn(q, n, sid) ==
  LET sel == SelectSeq(q, LAMBDA e : e.type = "next" /\ e.nodeId = n
                                      /\ e.subscriptionId = sid)
  IN [j \in DOMAIN sel |-> sel[j].value]

\* the observer sinks that node n has an edge to
SinksOf(n) ==
  {edges[j].target : j \in {x \in DOMAIN edges :
      edges[x].source = n /\ FindNode(nodes, edges[x].target).type = "observer"}}

\* take nodes with count 2, fed by an interval source, with two sinks
TakeTwoNodes ==
  {n \in NodeIds(nodes) :
     /\ Get(nodeObservables, n).k = "take"
     /\ Get(nodeObservables, n).count = 2
     /\ Get(nodeObservables, n).ins[1].k = "interval"
     /\ Cardinality(SinksOf(n)) = 2}

\* C11: with take(2) fed by a timer source and connected to two sinks, no
\* sink's log ever holds more than 2 values (4 in total), every take
\* subscription gets at most one complete, and a sink whose take
\* subscriptions have all completed holds exactly 2 values.
C11_TakeTwoPerSink ==
  \A n \in TakeTwoNodes :
    /\ \A k \in SinksOf(n) : Len(LogOf(k)) <= 2
    /\ \A j \in SubscriptionsOn(n) :
         Cardinality(EventsOf(bus, {"complete"},
                              SubId(inst[subscriptions[j]].port))) <= 1
    /\ (\A j \in SubscriptionsOn(n) :
          inst[subscriptions[j]].ended = "complete")
         => \A k \in SinksOf(n) : Len(LogOf(k)) = 2

\* the multiplexer subscriptions of switchMapTo nodes
SwitchInstances ==
  {i \in DOMAIN inst : inst[i].o.k = "switchMapTo" /\ inst[i].parent = 0}

\* q repeated n times
Repeat(q, n) == [j \in 1..(n * Len(q)) |-> q[((j - 1) % Len(q)) + 1]]

\* the values the primary of switchMapTo subscription i has emitted so far
PrimaryEmissions(i) ==
  LET outer == inst[inst[i].outer]
  IN CASE outer.o.k = "interval" -> outer.cnt
       [] outer.o.k = "array" -> Len(outer.o.values)
       [] outer.o.k = "probabilistic" ->
            IF outer.ended = "complete" THEN 1 ELSE 0
       [] OTHER -> 0

\* the producer a switchMapTo subscription subscribes on each outer value
SecondaryOf(i) == Get(nodeObservables, inst[i].o.sec)

\* C12: with an interval primary and a finite-sequence secondary, the
\* switchMapTo subscription has output the whole sequence once per primary
\* emission, the second and later emissions included.
C12_FreshSecondary ==
  \A i \in SwitchInstances :
    (inst[i].o.ins[1].k = "interval" /\ SecondaryOf(i).k = "array") =>
      ValuesOn(bus, inst[i].o.node, SubId(inst[i].port))
        = Repeat(SecondaryOf(i).values, PrimaryEmissions(i))

\* the primary emitted twice and the sequence was output twice
C12_Witness ==
  \E i \in SwitchInstances :
    /\ inst[i].o.ins[1].k = "interval"
    /\ SecondaryOf(i).k = "array"
    /\ PrimaryEmissions(i) >= 2
    /\ Len(ValuesOn(bus, inst[i].o.node, SubId(inst[i].port)))
         = 2 * Len(SecondaryOf(i).values)

\* the positions of q holding an event of type t with the secondary id of
\* switchMapTo subscription i, tagged with its secondary node
SecondaryEvents(q, i, t) ==
  {j \in DOMAIN q :
     /\ q[j].type = t
     /\ q[j].nodeId = inst[i].o.sec
     /\ q[j].subscriptionId = SwitchId(inst[i].o.node, inst[i].sid)}

\* the next events of switchMapTo subscription i among the first j events
ForwardedBefore(i, j) ==
  Cardinality({x \in 1..(j - 1) :
     /\ bus[x].type = "next"
     /\ bus[x].nodeId = inst[i].o.node
     /\ bus[x].subscriptionId = SubId(inst[i].port)})

\* C13 as stated: every primary emission puts an unsubscribe event and then
\* a subscribe event, both with the secondary node's id, on the bus.
C13_PairOnEveryEmission ==
  \A i \in SwitchInstances :
    /\ Cardinality(SecondaryEvents(bus, i, "subscribe")) = PrimaryEmissions(i)
    /\ \A j \in SecondaryEvents(bus, i, "subscribe") :
         Cardinality({x \in SecondaryEvents(bus, i, "unsubscribe") : x < j})
           = Cardinality({x \in SecondaryEvents(bus, i, "subscribe") : x <= j})

\* C13, amended: every primary emission puts a subscribe event with the
\* secondary node's id on the bus before any value of the new inner
\* subscription is forwarded; on every emission but the first of a
\* subscription, an unsubscribe event with the same ids comes between the
\* previous subscribe event and this one.
C13_PairOnEverySwitch ==
  \A i \in SwitchInstances :
    /\ Cardinality(SecondaryEvents(bus, i, "subscribe")) = PrimaryEmissions(i)
    /\ \A j \in SecondaryEvents(bus, i, "subscribe") :
         LET k == Cardinality({x \in SecondaryEvents(bus, i, "subscribe") :
                                 x <= j})
         IN /\ Cardinality({x \in SecondaryEvents(bus, i, "unsubscribe") :
                              x < j}) = k - 1
            /\ k > 1 => \E x \in SecondaryEvents(bus, i, "unsubscribe") :
                          /\ x < j
                          /\ \A y \in SecondaryEvents(bus, i, "subscribe") :
                               y < j => y < x
            /\ k = 1 => ForwardedBefore(i, j) = 0
            /\ SecondaryOf(i).k = "array" =>
                 ForwardedBefore(i, j) = (k - 1) * Len(SecondaryOf(i).values)

\* the primary emitted twice: subscribe, values, unsubscribe, subscribe, values
C13_Witness ==
  \E i \in SwitchInstances :
    /\ PrimaryEmissions(i) >= 2
    /\ Cardinality(SecondaryEvents(bus, i, "subscribe")) >= 2
    /\ Cardinality(SecondaryEvents(bus, i, "unsubscribe")) >= 1
    /\ SecondaryOf(i).k = "array"
    /\ ForwardedBefore(i, Len(bus) + 1) >= 2 * Len(SecondaryOf(i).values)

\* C14: a switchMapTo subscription has completed exactly when its primary
\* has completed and its current inner subscription (if any) has completed,
\* and its complete event is on the bus at most once.
C14_CompletesAfterBoth ==
  \A i \in SwitchInstances :
    LET me == inst[i]
        innerDone == me.inner = 0 \/ inst[me.inner].ended = "complete"
    IN /\ me.ended = "complete" <=> (me.done /\ innerDone)
       /\ me.ended = "complete" => inst[me.outer].ended = "complete"
       /\ Cardinality(EventsOf(bus, {"complete"}, SubId(me.port)))
            = IF me.ended = "complete" THEN 1 ELSE 0

\* the primary completed first (synchronously), the inner one later
C14_Witness ==
  \E i \in SwitchInstances :
    /\ inst[i].ended = "complete"
    /\ inst[i].o.ins[1].k = "array"
    /\ inst[i].inner # 0
    /\ inst[inst[i].inner].o.k = "probabilistic"
    /\ Cardinality(EventsOf(bus, {"complete"}, SubId(inst[i].port))) = 1

\* the multiplexer subscriptions of merge nodes fed by one empty source and
\* one sequence of three elements
MergeEmptyAndThree ==
  {i \in DOMAIN inst :
     /\ inst[i].o.k = "merge"
     /\ inst[i].parent = 0
     /\ Len(inst[i].o.ins) = 2
     /\ \E a, b \in 1..2 :
          /\ inst[i].o.ins[a].k = "empty"
          /\ inst[i].o.ins[b].k = "array"
          /\ Len(inst[i].o.ins[b].values) = 3}

\* what subscription sid of node n was delivered, in order: <<type, value>>
DeliveredOn(q, n, sid) ==
  LET sel == SelectSeq(q, LAMBDA e : e.type \in Delivery /\ e.nodeId = n
                                      /\ e.subscriptionId = sid)
  IN [j \in DOMAIN sel |-> <<sel[j].type, sel[j].value>>]

\* C15: each subscription of a merge of an empty source and a sequence of
\* three elements is delivered the three values in order, then one complete.
C15_MergeEmptyWithThree ==
  \A i \in MergeEmptyAndThree :
    LET values == IF inst[i].o.ins[1].k = "array" THEN inst[i].o.ins[1].values
                  ELSE inst[i].o.ins[2].values
    IN DeliveredOn(bus, inst[i].o.node, SubId(inst[i].port))
         = <<<<"next", values[1]>>, <<"next", values[2]>>,
             <<"next", values[3]>>, <<"complete", NoValue>>>>

\* two subscriptions of such a merge have completed after the three values
C15_Witness ==
  /\ pc = "running"
  /\ \E i \in MergeEmptyAndThree :
       /\ inst[i].o.ins[2].k = "empty"
       /\ Cardinality(MergeEmptyAndThree) = 2
       /\ inst[i].ended = "complete"
       /\ Len(ValuesOn(bus, inst[i].o.node, SubId(inst[i].port))) = 3

\* the multiplexer subscriptions of race nodes over two interval sources
RaceOfTimers ==
  {i \in DOMAIN inst :
     /\ inst[i].o.k = "race"
     /\ inst[i].parent = 0
     /\ Len(inst[i].o.ins) = 2
     /\ \A a \in 1..2 : inst[i].o.ins[a].k = "interval"}

\* the input subscription of race subscription i on input port a
RaceInputOf(i, a) ==
  CHOOSE j \in DOMAIN inst : inst[j].parent = i /\ inst[j].port = a

\* 0, 1, ..., n - 1: what an interval has emitted after n ticks
Counting(n) == [j \in 1..n |-> j - 1]

\* C16: a race subscription over two timer sources forwards the values of
\* the source that emitted first and nothing else: the other source is
\* unsubscribed before it has emitted, and never emits into the race.
C16_RaceForwardsWinnerOnly ==
  \A i \in RaceOfTimers :
    LET forwarded == ValuesOn(bus, inst[i].o.node, SubId(inst[i].port))
        emitted == {a \in 1..2 : inst[RaceInputOf(i, a)].cnt > 0}
    IN /\ Cardinality(emitted) <= 1
       /\ emitted = {} => forwarded = <<>>
       /\ \A a \in emitted :
            /\ inst[i].inner = a
            /\ forwarded = Counting(inst[RaceInputOf(i, a)].cnt)
            /\ \A b \in (1..2) \ {a} :
                 /\ inst[RaceInputOf(i, b)].closed
                 /\ ~inst[RaceInputOf(i, b)].timer

\* the second source won and its first two values were forwarded
C16_Witness ==
  \E i \in RaceOfTimers :
    /\ inst[i].inner = 2
    /\ inst[RaceInputOf(i, 2)].cnt = 2
    /\ ValuesOn(bus, inst[i].o.node, SubId(inst[i].port)) = <<0, 1>>

\* C17: once a race subscription has a winner, the bus holds an unsubscribe
\* event tagged with the node id of the losing source.
C17_LoserUnsubscribeEvent ==
  \A i \in RaceOfTimers :
    \A a \in 1..2 :
      inst[RaceInputOf(i, a)].cnt > 0 =>
        \A b \in (1..2) \ {a} :
          \E j \in DOMAIN bus :
            /\ bus[j].type = "unsubscribe"
            /\ bus[j].nodeId = inst[i].o.ins[b].node

\* the multi-input nodes with fewer than two incoming edges
StarvedMultiInput ==
  {n \in NodeIds(nodes) :
     FindNode(nodes, n).multi /\ Len(Inputs(edges, n)) < 2}

\* C18: a multi-input node with fewer than two incoming edges has no
\* producer, is never subscribed, and no next or complete event of it
\* reaches the bus.
C18_StarvedMultiInputAbsent ==
  \A n \in StarvedMultiInput :
    /\ ~HasProducer(n)
    /\ SubscriptionsOn(n) = {}
    /\ \A j \in DOMAIN bus :
         bus[j].nodeId = n => bus[j].type \notin {"next", "complete"}

\* C19: buildRxStream returns for every graph, cyclic ones included: it
\* never raises.
C19_BuildNeverRaises == pc # "raised"

\* the edges from a node with a producer to an observer that has no other
\* incoming edge
DirectSinkEdges ==
  {j \in DOMAIN edges :
     /\ HasProducer(edges[j].source)
     /\ FindNode(nodes, edges[j].target).type = "observer"
     /\ Len(Inputs(edges, edges[j].target)) = 1}

\* C20: the log of an observer connected directly to a node holds the
\* values of one subscription of that node, each exactly once (of the events
\* the listener heard).
C20_EachValueOnce ==
  pc \in {"running", "stopped"} =>
    \A j \in DirectSinkEdges :
      \E x \in SubscriptionsOn(edges[j].source) :
        LogOf(edges[j].target)
          = ValuesOn(heard, edges[j].source,
                     SubId(inst[subscriptions[x]].port))

-----------------------------------------------------------------------------
\* C21: the subscription ids carried by subscribe events identify pairwise
\* distinct subscriptions: every subscribe event announces one new
\* subscription (a multiplexer's sub_N, or a fresh subscription of a
\* switchMapTo's secondary), so no two subscribe events carry the same id.
C21_SubscribeIdsDistinct ==
  \A i, j \in DOMAIN bus :
    (i < j /\ bus[i].type = "subscribe" /\ bus[j].type = "subscribe"
     /\ bus[i].subscriptionId # NoSubId)
      => bus[i].subscriptionId # bus[j].subscriptionId

\* C22: building from a graph and building from its serialized and then
\* deserialized form give every node the same demand and give a producer
\* to the same nodes.
RoundTrip(ns, es) == Parse(Stringify(ns, es))

ProducerNodes(ns, obs) == {id \in NodeIds(ns) : Get(obs, id).k # "none"}

ConfigError(n) ==
  \/ n.type = "observable" /\ n.kind = "array" /\ n.cfg = "bad"
  \/ n.type = "operator" /\ n.kind \in {"map", "filter"} /\ ~Parses(n.cfg)

\* the values an array source feeds into node n, if that is n's input
UpstreamValues(n) ==
  LET ins == Inputs(edges, n.id)
  IN IF ins = <<>> THEN <<>> ELSE Get(nodeObservables, ins[1]).values

UpstreamIsArray(n) ==
  LET ins == Inputs(edges, n.id)
  IN ins # <<>> /\ FindNode(nodes, ins[1]).kind = "array"

SubscriptionIdsOn(n) ==
  {SubId(inst[s].port) :
     s \in {x \in DOMAIN inst : inst[x].parent = 0 /\ inst[x].o.node = n}}

Recovered(n, sid) ==
  CASE n.kind = "array" ->
         /\ ValuesOn(bus, n.id, sid) = ParseErrorValues
         /\ EventsOf(bus, {"complete"}, sid) # {}
    [] n.kind = "map" /\ UpstreamIsArray(n) ->
         ValuesOn(bus, n.id, sid)
           = [j \in DOMAIN UpstreamValues(n) |-> MapErrorValue]
    [] n.kind = "filter" /\ UpstreamIsArray(n) ->
         ValuesOn(bus, n.id, sid) = UpstreamValues(n)
    [] OTHER -> TRUE

C23_ConfigErrorsRecovered ==
  \A i \in DOMAIN nodes :
    ConfigError(nodes[i]) =>
      /\ pc # "raised"
      /\ \A e \in DOMAIN bus : bus[e].type # "error"
      /\ pc \in {"built", "running", "stopped"} =>
           \A sid \in SubscriptionIdsOn(nodes[i].id) :
             Recovered(nodes[i], sid)

\* a map whose expression did not parse has been fed two values and its
\* subscription was delivered two placeholders
C23_Witness ==
  /\ pc = "running"
  /\ \E i \in DOMAIN nodes :
       /\ nodes[i].kind = "map"
       /\ ConfigError(nodes[i])
       /\ Len(UpstreamValues(nodes[i])) = 2
       /\ \E sid \in SubscriptionIdsOn(nodes[i].id) :
            ValuesOn(bus, nodes[i].id, sid) = <<MapErrorValue, MapErrorValue>>

\* C24: in a run of probabilistic source -> operator -> sink, once every
\* timer of the chain has fired, an error event was emitted for the
\* operator's subscription if and only if one was emitted for the source's
\* subscription.
ErrorOn(n) ==
  \E e \in DOMAIN bus :
    /\ bus[e].type = "error"
    /\ bus[e].nodeId = n
    /\ bus[e].subscriptionId # NoSubId

ProbabilisticChains ==
  {x \in DOMAIN edges :
     /\ FindNode(nodes, edges[x].source).kind = "probabilistic"
     /\ FindNode(nodes, edges[x].target).type = "operator"
     /\ ~FindNode(nodes, edges[x].target).multi
     /\ \E y \in DOMAIN edges :
          /\ edges[y].source = edges[x].target
          /\ FindNode(nodes, edges[y].target).type = "observer"}

C24_ErrorAlongChain ==
  (pc = "running" /\ inst # <<>> /\ \A i \in DOMAIN inst : ~inst[i].timer) =>
    \A x \in ProbabilisticChains :
      ErrorOn(edges[x].target) <=> ErrorOn(edges[x].source)

\* C25: a configuration update during a run tears the run down and leaves a
\* restart pending; a pending restart leads to a run that is playing and was
\* built from the configuration of that moment; and a run that was torn
\* down puts nothing more on the bus or before the listener.
UpdatedWhilePlaying == isPlaying /\ updates' = updates + 1

RunOfCurrentGraph ==
  /\ isPlaying
  /\ pc = "running"
  /\ nodeObservables = BuildObservables(nodes, edges)

C25_UpdateRestartsRun ==
  /\ [][UpdatedWhilePlaying =>
          /\ pc' = "stopped"
          /\ busStopped'
          /\ ~listening'
          /\ \A i \in DOMAIN inst' : inst'[i].parent = 0 => inst'[i].closed
          /\ restartTimers' = restartTimers + 1]_vars
  /\ (restartTimers > 0 /\ ~isPlaying) ~> RunOfCurrentGraph
  /\ [][(pc = "stopped" /\ pc' = "stopped") =>
          (bus' = bus /\ heard' = heard)]_vars

\* after an update from take(2) to take(1) during a run, the restarted run
\* is playing, and its take completed after one value
C25_Witness ==
  /\ RunOfCurrentGraph
  /\ updates = 1
  /\ restartTimers = 0
  /\ \E i \in DOMAIN nodes : nodes[i].kind = "take" /\ nodes[i].count = 1
  /\ \E i \in DOMAIN inst :
       /\ inst[i].o.k = "take"
       /\ inst[i].o.count = 1
       /\ inst[i].cnt = 1
       /\ inst[i].ended = "complete"
  /\ ticks > 0

\* C26: in a graph with an edge whose source or target names no node, the
\* build does not raise and the listener logs values only for existing
\* observers; an operator whose only input edge is dangling has no producer,
\* no subscription and no subscribe event.
Dangling(e) ==
  e.source \notin NodeIds(nodes) \/ e.target \notin NodeIds(nodes)

StarvedOperators ==
  {n \in NodeIds(nodes) :
     /\ FindNode(nodes, n).type = "operator"
     /\ Len(Inputs(edges, n)) = 1
     /\ Inputs(edges, n)[1] \notin NodeIds(nodes)}

C26_DanglingEdgesHarmless ==
  (\E x \in DOMAIN edges : Dangling(edges[x])) =>
    /\ pc # "raised"
    /\ \A k \in DOMAIN subscriberLogs : FindNode(nodes, k).type = "observer"
    /\ pc \in {"built", "running", "stopped"} =>
         \A n \in StarvedOperators :
           /\ ~HasProducer(n)
           /\ SubscriptionsOn(n) = {}
           /\ \A e \in DOMAIN bus : bus[e].nodeId # n
           /\ \A e \in DOMAIN pendingSub : pendingSub[e].nodeId # n

\* a run of a graph with a dangling source and a dangling target: the
\* operator behind the dangling source has demand but nothing else, and the
\* listener heard a value whose route leads to the dangling target
C26_Witness ==
  /\ pc = "running"
  /\ \E n \in StarvedOperators : CountOf(nodeSubscriptionCounts, n) = 1
  /\ \E e \in DOMAIN heard :
       /\ heard[e].type = "next"
       /\ \E x \in DOMAIN edges :
            /\ edges[x].source = heard[e].nodeId
            /\ edges[x].target \notin NodeIds(nodes)
  /\ subscriberLogs = <<>>

\* C27: when the listener handles an unsubscribe event, the tracked state of
\* that subscription becomes cancelled if it was active, and otherwise
\* (completed, errored, cancelled, or not tracked) the map stays as it was.
C27_UnsubscribeOnlyCancelsActive ==
  [][(Len(heard') = Len(heard) + 1
      /\ heard'[Len(heard')].type = "unsubscribe") =>
       LET ev == heard'[Len(heard')]
           key == <<ev.nodeId, ev.subscriptionId>>
       IN IF key \in DOMAIN nodeSubscriptions
             /\ nodeSubscriptions[key] = "active"
          THEN /\ DOMAIN nodeSubscriptions' = DOMAIN nodeSubscriptions
               /\ nodeSubscriptions'[key] = "cancelled"
               /\ \A k \in DOMAIN nodeSubscriptions \ {key} :
                    nodeSubscriptions'[k] = nodeSubscriptions[k]
          ELSE nodeSubscriptions' = nodeSubscriptions]_vars

\* an unsubscribe event was handled for a subscription tracked as completed,
\* and it still is
C27_Witness ==
  /\ Len(heard) = 3
  /\ heard[1].type = "subscribe"
  /\ heard[2].type = "complete"
  /\ heard[3].type = "unsubscribe"
  /\ \A e \in 1..3 : heard[e].subscriptionId = SubId(1)
  /\ StatusOf(nodeSubscriptions, "iv", SubId(1)) = "completed"

\* C28: every subscription of a take(n) node counts for itself: whatever
\* the interleaving of the upstream emissions of the node's subscriptions,
\* each subscription has been forwarded the first min(n, number of values
\* its upstream emitted) of its upstream's values, no more and no fewer.
TakeSubscriptions ==
  {i \in DOMAIN inst :
     inst[i].parent = 0 /\ inst[i].o.k = "take" /\ inst[i].outer # 0}

\* the values the upstream of take subscription i has emitted so far
UpstreamEmitted(i) ==
  LET u == inst[inst[i].outer]
  IN CASE u.o.k = "interval" -> Counting(u.cnt)
       [] u.o.k = "array" -> u.o.values
       [] OTHER -> <<>>

Min(a, b) == IF a <= b THEN a ELSE b

C28_TakeCountsPerSubscription ==
  pc \in {"built", "running"} =>
    \A i \in TakeSubscriptions :
      LET up == UpstreamEmitted(i)
      IN ValuesOn(bus, inst[i].o.node, SubId(inst[i].port))
           = SubSeq(up, 1, Min(inst[i].o.count, Len(up)))

\* two subscriptions of one take(2) node are fed by their own timers: one
\* has completed after two values while the other has had one value
C28_Witness ==
  \E i, j \in TakeSubscriptions :
    /\ i # j
    /\ inst[i].o.node = inst[j].o.node
    /\ inst[i].o.count = 2
    /\ inst[i].ended = "complete"
    /\ Len(ValuesOn(bus, inst[i].o.node, SubId(inst[i].port))) = 2
    /\ inst[j].ended = ""
    /\ Len(ValuesOn(bus, inst[j].o.node, SubId(inst[j].port))) = 1

\* C29: a merge node with two or more incoming edges forwards to each of
\* its subscriptions every value of every upstream node, source or
\* operator, and a subscription of it completes only when a subscription to
\* each of its upstreams has completed.
MergeSubscriptions ==
  {i \in DOMAIN inst :
     /\ inst[i].parent = 0
     /\ inst[i].o.k = "merge"
     /\ Len(Inputs(edges, inst[i].o.node)) >= 2}

\* what node x emits when subscribed, for an array or a map over an array
EmittedBy(x) ==
  LET n == FindNode(nodes, x)
      ins == Inputs(edges, x)
      up == IF ins = <<>> THEN NoNode ELSE FindNode(nodes, ins[1])
  IN IF n.kind = "array" THEN n.values
     ELSE IF n.kind = "map" /\ up.kind = "array"
     THEN [j \in DOMAIN up.values |-> MapFn(n.cfg, up.values[j])]
     ELSE <<>>

C29_MergeForwardsEveryUpstream ==
  pc \in {"built", "running"} =>
    \A i \in MergeSubscriptions :
      LET ups == Inputs(edges, inst[i].o.node)
          got == ValuesOn(bus, inst[i].o.node, SubId(inst[i].port))
      IN \A u \in {x \in DOMAIN ups : ups[x] \in NodeIds(nodes)} :
           /\ \A j \in DOMAIN EmittedBy(ups[u]) :
                \E g \in DOMAIN got : got[g] = EmittedBy(ups[u])[j]
           /\ inst[i].ended = "complete" =>
                \E k \in DOMAIN inst :
                  /\ inst[k].parent = i
                  /\ inst[k].o.node = ups[u]
                  /\ inst[k].ended = "complete"

\* C30: for a dual-input operator with two incoming edges, if one edge is
\* labelled primary and the other secondary, the producer's primary input
\* is the source of the edge labelled primary and its secondary input the
\* source of the edge labelled secondary, in either order of the edges; if
\* neither edge is labelled, the first edge is primary and the second
\* secondary.
IncomingEdges(n) == SelectSeq(edges, LAMBDA e : e.target = n)

DualOperators ==
  {n \in NodeIds(nodes) :
     /\ FindNode(nodes, n).type = "operator"
     /\ FindNode(nodes, n).multi
     /\ Len(IncomingEdges(n)) = 2
     /\ HasProducer(n)}

C30_PortsByLabelThenPosition ==
  \A n \in DualOperators :
    LET in == IncomingEdges(n)
        o == Get(nodeObservables, n)
    IN /\ \A a, b \in 1..2 :
            (in[a].handle = "primary" /\ in[b].handle = "secondary") =>
              (o.ins[1].node = in[a].source /\ o.ins[2].node = in[b].source)
       /\ (in[1].handle = "none" /\ in[2].handle = "none") =>
            (o.ins[1].node = in[1].source /\ o.ins[2].node = in[2].source)

\* a switchMapTo whose secondary edge comes first in the edge list has been
\* built and run: its subscription was delivered the secondary's values
C30_Witness ==
  /\ pc = "running"
  /\ \E n \in DualOperators :
       /\ IncomingEdges(n)[1].handle = "secondary"
       /\ IncomingEdges(n)[2].handle = "primary"
       /\ \E j \in SubscriptionsOn(n) :
            ValuesOn(bus, n, SubId(inst[subscriptions[j]].port))
              = FindNode(nodes, IncomingEdges(n)[1].source).values

\* C31: handling lifecycle events changes at most the state entries of the
\* (nodeId, subscriptionId) pairs named in those events: in every step the
\* entries of all other subscriptions, of the same node or of other nodes,
\* stay as they were and no entry is dropped.
NamedIn(q, from) ==
  {<<q[e].nodeId, q[e].subscriptionId>> : e \in (from + 1)..Len(q)}

C31_OnlyNamedEntryChanges ==
  [][Len(heard') >= Len(heard) =>
       /\ DOMAIN nodeSubscriptions \subseteq DOMAIN nodeSubscriptions'
       /\ \A key \in DOMAIN nodeSubscriptions' :
            StatusOf(nodeSubscriptions', key[1], key[2])
                # StatusOf(nodeSubscriptions, key[1], key[2])
              => key \in NamedIn(heard', Len(heard))]_vars

\* the terminal event of one subscription of a node has been handled while
\* another subscription of the same node and a subscription of another node
\* are still active
C31_Witness ==
  /\ pc = "running"
  /\ \E k1, k2, k3 \in DOMAIN nodeSubscriptions :
       /\ k1[1] = k2[1] /\ k1[2] # k2[2] /\ k3[1] # k1[1]
       /\ nodeSubscriptions[k1] = "completed"
       /\ nodeSubscriptions[k2] = "active"
       /\ nodeSubscriptions[k3] = "active"

\* C32: in a chain timer source -> single-input operator -> sink, every next
\* event of the operator node on the bus is preceded by a next event of the
\* source node carrying the tick value it was derived from, for every order
\* of the nodes in the node list.
TimerChains ==
  {c \in NodeIds(nodes) \X NodeIds(nodes) :
     /\ FindNode(nodes, c[1]).kind = "interval"
     /\ FindNode(nodes, c[2]).type = "operator"
     /\ ~FindNode(nodes, c[2]).multi
     /\ Inputs(edges, c[2]) = <<c[1]>>
     /\ \E x \in DOMAIN edges :
          edges[x].source = c[2] /\ IsSink(edges[x].target)}

DerivedFrom(n, v) ==
  IF FindNode(nodes, n).kind = "map" THEN MapFn(FindNode(nodes, n).cfg, v)
  ELSE v

C32_SourceNextBeforeOperatorNext ==
  \A c \in TimerChains :
    \A e \in DOMAIN bus :
      (bus[e].type = "next" /\ bus[e].nodeId = c[2]) =>
        \E d \in 1..(e - 1) :
          /\ bus[d].type = "next"
          /\ bus[d].nodeId = c[1]
          /\ DerivedFrom(c[2], bus[d].value) = bus[e].value

\* C33: every multiplexer subscription on an interval node has a timer of
\* its own: the values delivered to it are 0, 1, 2, ... from 0, as many as
\* its own timer has fired, whatever the other subscriptions of the node
\* received and whatever the runs before this one did.
TimerSubscriptions ==
  {j \in DOMAIN subscriptions : inst[subscriptions[j]].o.k = "interval"}

Counting0(q) == q = [x \in DOMAIN q |-> x - 1]

RunBegins == pc # "idle" /\ pc' = "idle"

SubscriptionsClosed ==
  \A i \in DOMAIN inst : inst[i].closed /\ ~inst[i].timer

C34_OneRunLive ==
  /\ [](~isPlaying => SubscriptionsClosed)
  /\ [][RunBegins => (SubscriptionsClosed /\ pendingSub = <<>>)]_vars

\* C35: each subscription of a probabilistic source is delivered either one
\* success value and then complete, or one error, and nothing else; a
\* source configured with successRate 0 delivers no success value to any
\* subscription, and one configured with successRate 1 delivers no error.
ProbabilisticSubscriptions ==
  {j \in DOMAIN subscriptions : inst[subscriptions[j]].o.k = "probabilistic"}

ConfiguredRate(n) ==
  IF FindNode(nodes, n).cfg = "rate" THEN FindNode(nodes, n).count
  ELSE DefaultSuccessRate

C35_SuccessOnlyAtConfiguredRate ==
  \A j \in ProbabilisticSubscriptions :
    LET i == subscriptions[j]
        n == inst[i].o.node
        got == DeliveredOn(bus, n, SubId(inst[i].port))
    IN /\ got \in {<<>>, <<<<"next", SuccessValue>>, <<"complete", NoValue>>>>,
                   <<<<"error", NoValue>>>>}
       /\ ConfiguredRate(n) = 0 => got \in {<<>>, <<<<"error", NoValue>>>>}
       /\ ConfiguredRate(n) = 100 => got # <<<<"error", NoValue>>>>

\* C36: once a subscription of a take(n) node has forwarded its n-th value
\* and complete has been emitted for it, no further next or complete event
\* of the take node follows on its behalf: among the events the multiplexer
\* tags with the subscription, and among the events the take emits itself,
\* a complete event is the last one.
SingleTakes ==
  {n \in NodeIds(nodes) :
     /\ Get(nodeObservables, n).k = "take"
     /\ Cardinality(SubscriptionsOn(n)) = 1}

NextAndComplete(q, n, tagged) ==
  SelectSeq(q, LAMBDA e : /\ e.nodeId = n
                          /\ e.type \in {"next", "complete"}
                          /\ (e.subscriptionId # NoSubId) = tagged)

CompleteIsLast(q) ==
  \A a \in DOMAIN q : q[a].type = "complete" => a = Len(q)

C36_TakeSilentAfterComplete ==
  \A n \in SingleTakes :
    \A tagged \in BOOLEAN : CompleteIsLast(NextAndComplete(bus, n, tagged))

\* C37: for a dual-input operator with two incoming edges from different
\* sources, the source of an edge labelled secondary is not the primary
\* input of the producer, whether or not the other edge carries a label
\* and in either order of the two edges.
C37_SecondaryNeverPrimary ==
  \A n \in DualOperators :
    LET in == IncomingEdges(n)
    IN in[1].source # in[2].source =>
         \A a \in 1..2 :
           in[a].handle = "secondary" =>
             Get(nodeObservables, n).ins[1].node # in[a].source

\* C38: the build does not depend on the order of the node list: for every
\* permutation of the nodes, with the same edges, every node gets the same
\* producer (the same upstream producers) and the subscriptions of every
\* node are delivered the same values in the same order.
RECURSIVE Arrangements(_)
Arrangements(S) ==
  IF S = {} THEN {<<>>}
  ELSE UNION {{<<x>> \o p : p \in Arrangements(S \ {x})} : x \in S}

NodeOrders(ns) ==
  {[i \in DOMAIN ns |-> ns[p[i]]] : p \in Arrangements(DOMAIN ns)}

\* the state buildRxStream starts from
FreshRun(ns, es) ==
  [inst |-> <<>>, bus |-> <<>>, busStopped |-> FALSE, listening |-> FALSE,
   heard |-> <<>>, nodeSubscriptions |-> <<>>, subscriberLogs |-> <<>>,
   clock |-> 0, obs |-> BuildObservables(ns, es), ns |-> ns, es |-> es]

\* the values the subscriptions of node n are delivered during the build
BuiltValues(ns, es, n) ==
  LET r == SubscribeAll(FreshRun(ns, es), AllSubscriptionCounts(ns, es).memo)
      sel == SelectSeq(r.st.bus, LAMBDA e : e.type = "next" /\ e.nodeId = n
                                           /\ e.subscriptionId # NoSubId)
  IN [j \in DOMAIN sel |-> sel[j].value]

C38_BuildIgnoresNodeOrder ==
  pc = "built" =>
    \A p \in NodeOrders(nodes) :
      \A n \in NodeIds(nodes) :
        /\ Get(BuildObservables(p, edges), n) = Get(nodeObservables, n)
        /\ BuiltValues(p, edges, n) = BuiltValues(nodes, edges, n)

\* C39: after handleReset the session stays stopped until the user presses
\* play: while the canvas is empty and the session is not playing, the only
\* step that sets isPlaying is handlePlay, which leaves the pending restart
\* timers as they are.
AfterReset == nodes = <<>> /\ edges = <<>> /\ ~isPlaying

C39_ResetStaysStopped ==
  [][(AfterReset /\ isPlaying') => restartTimers' = restartTimers]_vars

\* C40: in every reachable state the log of each observer sink holds at
\* most 21 values, and they are the values most recently routed to it, in
\* the order in which they arrived.
RoutedTo(q, k) ==
  LET down(e) == DownstreamEdges(edges, e.nodeId)
      number(e) == SubscriptionNumber(e.subscriptionId)
      sel == SelectSeq(q, LAMBDA e :
               /\ e.type = "next"
               /\ down(e) # <<>>
               /\ number(e) >= 0
               /\ down(e)[(number(e) % Len(down(e))) + 1].target = k)
  IN [j \in DOMAIN sel |-> sel[j].value]

ObserverSinks == {n \in NodeIds(nodes) : FindNode(nodes, n).type = "observer"}

C40_LogKeepsLatest ==
  \A k \in ObserverSinks :
    /\ Len(LogOf(k)) <= LogKeep + 1
    /\ LogOf(k) = LastN(RoutedTo(heard, k), LogKeep + 1)

\* a sink has been routed more than 21 values
C40_Witness ==
  \E k \in ObserverSinks :
    /\ Len(RoutedTo(heard, k)) > LogKeep + 1
    /\ Len(LogOf(k)) = LogKeep + 1
    /\ LogOf(k)[1] = RoutedTo(heard, k)[Len(RoutedTo(heard, k)) - LogKeep]

====
